---- MODULE Spec2Model ----
(***************************************************************************)
(* Graph-based rule interpreter of the visual compute engine               *)
(* (compute/src/rules/graph.rs, compute/src/rules/types.rs).               *)
(*                                                                         *)
(* One behaviour is one GraphInterpreter: `new` builds the two indices     *)
(* from a graph, `evaluate` picks the request node and follow_path /       *)
(* follow_outgoing walk the graph, one node dispatch per step, until a     *)
(* GraphResult is returned.  follow_path and follow_outgoing call each     *)
(* other recursively, so every dispatch is one more frame on the stack.    *)
(***************************************************************************)
EXTENDS Integers, Sequences, FiniteSets, TLC

(***************************************************************************)
(* Bounds of the model.                                                    *)
(***************************************************************************)
\* Longest edge list of a graph.
MaxEdges == 3
\* Number of nested follow_path frames the stack holds; a deeper recursion
\* exhausts the stack and the evaluation never returns a GraphResult (a
\* build that turns the tail calls into a loop keeps walking instead; in
\* both builds evaluate does not return).
StackLimit == 5

(***************************************************************************)
(* The graph data model (types.rs).                                        *)
(***************************************************************************)
\* Option<String>::None of an edge's sourceHandle, and of the handle given
\* to follow_outgoing.
NoHandle == "<none>"

\* Ids of the nodes of a graph, and one id that no node carries.
NodeIds == {"n1", "n2"}
DanglingId == "n9"

GraphNode(id, payload) == [id |-> id, node_type |-> payload.node_type, data |-> payload.data]

GraphEdge(source, target, source_handle) ==
    [source |-> source, target |-> target, source_handle |-> source_handle]

\* A JSON object that holds none of the fields any node data type requires.
UnrelatedObject == [label |-> "x"]

\* A string the program takes apart (a request field, a condition value, a
\* rate-limit key) is a sequence of one-character strings; a string that is
\* only compared as a whole (a node type, a handle, an operator, a header
\* name) is a string.
AdminPath == <<"/", "a">>
PublicPath == <<"/", "p">>

\* The conditions ruleGroup and condition nodes carry here.
PathEquals(value) == [field |-> "path", operator |-> "equals", value |-> value]
Conditions == {PathEquals(AdminPath), PathEquals(PublicPath)}

\* The fields serde requires of each node data type (the non-Option fields).
RequiredFields(node_type) ==
    CASE node_type = "ruleGroup" -> {"logic", "conditions"}
      [] node_type = "condition" -> {"field", "operator", "value"}
      [] node_type = "action"    -> {"action"}
      [] node_type = "backend"   -> {"name", "host"}
      [] node_type = "rateLimit" -> {"limit", "windowUnit", "keyBy"}
      [] node_type = "header"    -> {"operation", "name"}
      [] node_type = "redirect"  -> {"url"}
      [] OTHER                   -> {}

\* serde_json::from_value(node.data) succeeds: unknown fields are ignored,
\* a missing required field is an error.
ParsesAs(node_type, data) ==
    /\ RequiredFields(node_type) \subseteq DOMAIN data
    /\ node_type = "ruleGroup" =>
          \A i \in 1..Len(data.conditions) :
              {"id", "field", "operator", "value"} \subseteq DOMAIN data.conditions[i]

\* The well-formed data objects of each kind that the graphs here carry.
WellFormedData(node_type) ==
    CASE node_type = "ruleGroup" ->
            {[logic |-> l,
              conditions |-> <<[id |-> "c", field |-> c.field, operator |-> c.operator,
                                value |-> c.value]>>] : l \in {"AND", "NOT"}, c \in Conditions}
      [] node_type = "condition" -> Conditions
      [] node_type = "action"    ->
            {[action |-> "block", statusCode |-> 451, message |-> "No"],
             [action |-> "allow"],
             [action |-> "redirect"]}
      [] node_type = "backend"   -> {[name |-> "origin", host |-> "origin.example.com"]}
      [] node_type = "rateLimit" -> {[limit |-> 2, windowUnit |-> "second", keyBy |-> "path"]}
      [] node_type = "header"    ->
            {[operation |-> op, name |-> "x-tag", value |-> <<"v">>] : op \in {"set", "rename"}}
      [] node_type = "redirect"  -> {[url |-> "/login"]}
      [] OTHER                   -> {UnrelatedObject}

\* The node kinds follow_path knows, and one it does not.
KnownTypes == {"request", "ruleGroup", "condition", "action", "backend",
               "rateLimit", "header", "redirect"}
NodeTypes == KnownTypes \cup {"cache"}

\* Every (type, data) pair: the well-formed data of the kind, and a data
\* object that does not match the kind's schema.
Payloads ==
    UNION {{[node_type |-> t, data |-> d] : d \in WellFormedData(t) \cup {UnrelatedObject}}
           : t \in NodeTypes}

\* The first node of the graphs here is a request node or a node of an
\* unknown kind; the second is any node.
EntryPayloads == {p \in Payloads : p.node_type \in {"request", "cache"}}

NodeLists ==
    {<<GraphNode("n1", p1), GraphNode("n2", p2)>> : p1 \in EntryPayloads, p2 \in Payloads}

\* The output handles the editor gives a node of each kind.
HandlesOf(node_type) ==
    CASE node_type = "ruleGroup" -> {"match", "noMatch"}
      [] node_type = "condition" -> {"true", "false"}
      [] node_type = "rateLimit" -> {"ok", "exceeded"}
      [] OTHER                   -> {"next"}

NodeTypeIn(ns, id) == ns[CHOOSE i \in 1..Len(ns) : ns[i].id = id].node_type

\* The edges a graph over the nodes ns may hold: any source, as target
\* another node, the source itself (from the second node) or no node at all,
\* and as sourceHandle a handle of the source's kind or none.
EdgeChoices(ns) ==
    UNION {{GraphEdge(s, t, h) : t \in (NodeIds \ {"n1"}) \cup {DanglingId} \cup
                                        (IF s = "n1" THEN {} ELSE {"n1"}),
                                 h \in HandlesOf(NodeTypeIn(ns, s)) \cup {NoHandle}}
           : s \in NodeIds}

\* A request: its path, its headers (lower-case name -> value), the client
\* address the platform reports for it, if any, and what geo_lookup answers
\* for that address, if anything.
None == [some |-> FALSE]
Some(v) == [some |-> TRUE, v |-> v]
NoHeaders == [name \in {} |-> <<>>]
ClientRequest(path, headers, client_ip, geo) ==
    [path |-> path, headers |-> headers, client_ip |-> client_ip, geo |-> geo]

\* The requests evaluated.
Requests == {ClientRequest(AdminPath, NoHeaders, None, None)}

(***************************************************************************)
(* The interpreter's state.                                                *)
(***************************************************************************)
VARIABLES
    graph,          \* the GraphPayload the interpreter borrows
    req,            \* the request evaluated
    nodes,          \* GraphInterpreter.nodes: id -> node
    edges_from,     \* GraphInterpreter.edges_from: source id -> edges, in order
    rate_limiter,   \* GraphInterpreter.rate_limiter is Some
    geo_cache,      \* GraphInterpreter.geo_cache
    lookups,        \* calls of geo_lookup and device_lookup the interpreter made
    header_mods,    \* GraphInterpreter.header_mods
    pc,             \* "idle", "follow_path", "done", "overflow" or "responded"
    node_id,        \* the argument of the running follow_path
    depth,          \* follow_path frames on the stack
    result,         \* the GraphResult returned by evaluate
    dispatches,     \* nodes dispatched by follow_path so far
    visited,        \* the ids of the nodes dispatched by this evaluation, in order
    check_calls,    \* ERL::check_rate calls so far
    lookup_calls,   \* RateCounter::lookup_count calls so far
    rate_answer,    \* what the last ERL::check_rate call answered
    check_rate_call,\* the arguments of the last ERL::check_rate call
    counter,        \* the rate counter of the platform: entry -> count
    now,            \* the platform's clock, in seconds
    hits,           \* the rate counter's increments: entry -> their times
    penalty_box,    \* the penalty box: entry -> the time it leaves the box
    rate_log,       \* the rateLimit visits of all requests so far, in order
    tracked,        \* the rate store serves this traffic only
    instances,      \* the interpreters of concurrent requests, each in a rateLimit arm
    last,           \* what the last follow_path did
    evaluations,    \* evaluate calls made so far, the running one included
    prev,           \* what the evaluation before this one left behind
    backend_req,    \* the request the handler sends to the backend
    response,       \* the response the handler returns
    config_store,   \* the Config Store's value under the service id
    load            \* what load_graph_from_store returned to the handler

\* The variables evaluate and follow_path never touch: those of their caller.
load_vars == <<config_store, load>>
caller_vars == <<evaluations, prev, backend_req, response, load_vars>>

\* The rate service's variables.
rate_vars == <<check_calls, lookup_calls, rate_answer, check_rate_call, counter,
               now, hits, penalty_box, rate_log, tracked, instances>>

vars == <<graph, req, nodes, edges_from, rate_limiter, geo_cache, lookups, header_mods, pc,
          node_id, depth, result, dispatches, visited, check_calls, lookup_calls,
          rate_answer, check_rate_call, counter, now, hits, penalty_box, rate_log,
          tracked, instances, last, evaluations, prev, backend_req, response,
          config_store, load>>

(***************************************************************************)
(* The graph loader (loader.rs).  A JSON value is a record that tells its  *)
(* kind; the data of a node is any JSON value and is kept as the node data *)
(* the interpreter parses.  A text is the serialisation of a JSON value or *)
(* a text that is no JSON; bytes are the UTF-8 bytes of a text, a gzip     *)
(* stream of other bytes, or bytes that are neither; a packed string is an *)
(* optional "raw:" prefix and a body that is the base64 of some bytes or   *)
(* is no base64.                                                           *)
(***************************************************************************)
JsonNull == [json |-> "null"]
JsonNumber(n) == [json |-> "number", n |-> n]
JsonString(s) == [json |-> "string", s |-> s]
JsonArray(items) == [json |-> "array", items |-> items]
JsonObject(fields) == [json |-> "object", fields |-> fields]

JsonText(value) == [text |-> "json", value |-> value]
NotJsonText == [text |-> "other"]
EmptyText == [text |-> "empty"]

Utf8Bytes(text) == [bytes |-> "utf8", text |-> text]
GzipBytes(inner) == [bytes |-> "gzip", inner |-> inner]
OtherBytes == [bytes |-> "other"]

Base64Of(bytes) == [base64 |-> TRUE, bytes |-> bytes]
NotBase64 == [base64 |-> FALSE]
Packed(prefix, body) == [prefix |-> prefix, body |-> body]
EmptyString == Packed("", Base64Of(Utf8Bytes(EmptyText)))

\* Result<T, LoadError>
Ok(v) == [ok |-> TRUE, v |-> v]
Err(e) == [ok |-> FALSE, err |-> e]

\* BASE64.decode
base64_decode(body) == IF body.base64 THEN Ok(body.bytes) ELSE Err("Base64Error")

\* String::from_utf8(bytes), its error mapped to an io::Error: a gzip
\* stream starts with the bytes 1f 8b and is no UTF-8.
from_utf8(bytes) ==
    IF bytes.bytes = "utf8" THEN Ok(bytes.text) ELSE Err("DecompressError")

\* GzDecoder::new(..).read_to_string(..): the bytes must be a gzip stream
\* and what it holds must be UTF-8.
gz_read_to_string(bytes) ==
    IF bytes.bytes = "gzip" /\ bytes.inner.bytes = "utf8"
    THEN Ok(bytes.inner.text)
    ELSE Err("DecompressError")

\* serde_json::from_str::<serde_json::Value>
from_str(text) == IF text.text = "json" THEN Ok(text.value) ELSE Err("JsonError")

\* Value::get(key): Some only for an object that has the key.
value_get(value, key) ==
    IF value.json = "object" /\ key \in DOMAIN value.fields
    THEN Some(value.fields[key])
    ELSE None

\* The field of a struct serde derives Deserialize for: by name from an
\* object, by position from an array of as many items as the struct has
\* fields.
struct_field(value, names, i) ==
    IF value.json = "object"
    THEN (IF names[i] \in DOMAIN value.fields THEN Some(value.fields[names[i]]) ELSE None)
    ELSE IF value.json = "array" /\ Len(value.items) = Len(names)
         THEN Some(value.items[i])
         ELSE None

is_struct(value, names) ==
    \/ value.json = "object"
    \/ value.json = "array" /\ Len(value.items) = Len(names)

\* A required field of type String or f64.
has_field_of(value, names, i, kind) ==
    /\ struct_field(value, names, i).some
    /\ struct_field(value, names, i).v.json = kind

\* A field of type Option<String>: absent, null or a string.
has_optional_string(value, names, i) ==
    \/ ~struct_field(value, names, i).some
    \/ struct_field(value, names, i).v.json \in {"null", "string"}

optional_string(value, names, i) ==
    IF struct_field(value, names, i).some /\ struct_field(value, names, i).v.json = "string"
    THEN struct_field(value, names, i).v.s
    ELSE NoHandle

VcePayloadFields == <<"version", "deployedAt", "rules_packed">>
GraphPayloadFields == <<"nodes", "edges">>
GraphNodeFields == <<"id", "type", "position", "data">>
NodePositionFields == <<"x", "y">>
GraphEdgeFields == <<"id", "source", "target", "sourceHandle", "targetHandle", "type">>

\* serde_json::from_str::<VcePayload>
vce_payload_from_str(text) ==
    IF /\ text.text = "json"
       /\ is_struct(text.value, VcePayloadFields)
       /\ \A i \in 1..3 : has_field_of(text.value, VcePayloadFields, i, "string")
    THEN Ok([version |-> struct_field(text.value, VcePayloadFields, 1).v.s,
             deployed_at |-> struct_field(text.value, VcePayloadFields, 2).v.s,
             rules_packed |-> struct_field(text.value, VcePayloadFields, 3).v.s])
    ELSE Err("JsonError")

\* Deserialize for NodePosition, GraphNode and GraphEdge.
is_node_position(value) ==
    /\ is_struct(value, NodePositionFields)
    /\ \A i \in 1..2 : has_field_of(value, NodePositionFields, i, "number")

is_graph_node(value) ==
    /\ is_struct(value, GraphNodeFields)
    /\ \A i \in 1..2 : has_field_of(value, GraphNodeFields, i, "string")
    /\ struct_field(value, GraphNodeFields, 3).some
    /\ is_node_position(struct_field(value, GraphNodeFields, 3).v)
    /\ struct_field(value, GraphNodeFields, 4).some

is_graph_edge(value) ==
    /\ is_struct(value, GraphEdgeFields)
    /\ \A i \in 1..3 : has_field_of(value, GraphEdgeFields, i, "string")
    /\ \A i \in 4..6 : has_optional_string(value, GraphEdgeFields, i)

node_position_from_value(value) ==
    [x |-> struct_field(value, NodePositionFields, 1).v.n,
     y |-> struct_field(value, NodePositionFields, 2).v.n]

graph_node_from_value(value) ==
    [id |-> struct_field(value, GraphNodeFields, 1).v.s,
     node_type |-> struct_field(value, GraphNodeFields, 2).v.s,
     position |-> node_position_from_value(struct_field(value, GraphNodeFields, 3).v),
     data |-> struct_field(value, GraphNodeFields, 4).v]

graph_edge_from_value(value) ==
    [id |-> struct_field(value, GraphEdgeFields, 1).v.s,
     source |-> struct_field(value, GraphEdgeFields, 2).v.s,
     target |-> struct_field(value, GraphEdgeFields, 3).v.s,
     source_handle |-> optional_string(value, GraphEdgeFields, 4),
     target_handle |-> optional_string(value, GraphEdgeFields, 5),
     edge_type |-> optional_string(value, GraphEdgeFields, 6)]

is_vec_of_nodes(value) ==
    /\ value.json = "array"
    /\ \A i \in 1..Len(value.items) : is_graph_node(value.items[i])

is_vec_of_edges(value) ==
    /\ value.json = "array"
    /\ \A i \in 1..Len(value.items) : is_graph_edge(value.items[i])

\* serde_json::from_value::<GraphPayload>
graph_payload_from_value(value) ==
    IF /\ is_struct(value, GraphPayloadFields)
       /\ struct_field(value, GraphPayloadFields, 1).some
       /\ is_vec_of_nodes(struct_field(value, GraphPayloadFields, 1).v)
       /\ struct_field(value, GraphPayloadFields, 2).some
       /\ is_vec_of_edges(struct_field(value, GraphPayloadFields, 2).v)
    THEN LET ns == struct_field(value, GraphPayloadFields, 1).v.items
             es == struct_field(value, GraphPayloadFields, 2).v.items
         IN  Ok([nodes |-> [i \in 1..Len(ns) |-> graph_node_from_value(ns[i])],
                 edges |-> [i \in 1..Len(es) |-> graph_edge_from_value(es[i])]])
    ELSE Err("JsonError")

\* The check of decompress_graph as it would be if the two keys had to
\* hold arrays.
NodesOrEdgesNotArrays(value) ==
    \/ ~value_get(value, "nodes").some
    \/ ~value_get(value, "edges").some
    \/ value_get(value, "nodes").v.json # "array"
    \/ value_get(value, "edges").v.json # "array"

\* value.get("nodes").is_none() || value.get("edges").is_none()
invalid_format(value) ==
    ~value_get(value, "nodes").some \/ ~value_get(value, "edges").some

\* The decoding as it would be if it took every packed string for gzip.
PackedJsonAlwaysGzip(packed) ==
    LET decoded == base64_decode(packed.body)
    IN  IF ~decoded.ok THEN decoded ELSE gz_read_to_string(decoded.v)

\* The JSON text of a packed string: "raw:" + base64(JSON) or
\* base64(gzip(JSON)).
packed_json(packed) ==
    LET decoded == base64_decode(packed.body)
    IN  IF ~decoded.ok THEN decoded
        ELSE IF packed.prefix = "raw:" THEN from_utf8(decoded.v)
        ELSE gz_read_to_string(decoded.v)

decompress_graph(packed) ==
    LET json == packed_json(packed)
    IN  IF ~json.ok THEN json
        ELSE LET value == from_str(json.v)
             IN  IF ~value.ok THEN value
                 ELSE IF invalid_format(value.v) THEN Err("InvalidFormat")
                 ELSE graph_payload_from_value(value.v)

\* store.get(service_id).ok_or_else(|| LoadError::KeyNotFound(..)) as it
\* would be if an absent value were reported as a JSON error.
KeyNotFoundAsJsonError == "JsonError"

key_not_found == "KeyNotFound"

\* String::is_empty on rules_packed.
is_empty(packed) == packed = EmptyString

\* load_graph_from_store: stored is the store's value for the service id.
load_graph_from_store(stored) ==
    IF ~stored.some THEN Err(key_not_found)
    ELSE LET payload == vce_payload_from_str(stored.v)
         IN  IF ~payload.ok THEN payload
             ELSE IF is_empty(payload.v.rules_packed) THEN Err("EmptyRules")
             ELSE decompress_graph(payload.v.rules_packed)

\* What the editor stores for a graph: the JSON of the graph, packed with
\* or without gzip, in a payload under the service id.
node_to_value(n) ==
    JsonObject([k \in {"id", "type", "position", "data"} |->
        CASE k = "id" -> JsonString(n.id)
          [] k = "type" -> JsonString(n.node_type)
          [] k = "position" -> JsonObject([c \in {"x", "y"} |-> JsonNumber(0)])
          [] k = "data" -> n.data])

edge_to_value(e) ==
    IF e.source_handle = NoHandle
    THEN JsonObject([k \in {"id", "source", "target"} |->
            CASE k = "id" -> JsonString("e")
              [] k = "source" -> JsonString(e.source)
              [] k = "target" -> JsonString(e.target)])
    ELSE JsonObject([k \in {"id", "source", "target", "sourceHandle"} |->
            CASE k = "id" -> JsonString("e")
              [] k = "source" -> JsonString(e.source)
              [] k = "target" -> JsonString(e.target)
              [] k = "sourceHandle" -> JsonString(e.source_handle)])

graph_to_value(g) ==
    JsonObject([k \in {"nodes", "edges"} |->
        IF k = "nodes"
        THEN JsonArray([i \in 1..Len(g.nodes) |-> node_to_value(g.nodes[i])])
        ELSE JsonArray([i \in 1..Len(g.edges) |-> edge_to_value(g.edges[i])])])

\* Serialize for GraphNode, GraphEdge and GraphPayload, of graphs that
\* carry every field of the types: all fields are written, an Option
\* that is None as null.
option_to_value(a) == IF a = NoHandle THEN JsonNull ELSE JsonString(a)

graph_node_to_value(n) ==
    JsonObject([k \in {"id", "type", "position", "data"} |->
        CASE k = "id" -> JsonString(n.id)
          [] k = "type" -> JsonString(n.node_type)
          [] k = "position" ->
                JsonObject([c \in {"x", "y"} |->
                    IF c = "x" THEN JsonNumber(n.position.x) ELSE JsonNumber(n.position.y)])
          [] k = "data" -> n.data])

graph_edge_to_value(e) ==
    JsonObject([k \in {"id", "source", "target", "sourceHandle", "targetHandle", "type"} |->
        CASE k = "id" -> JsonString(e.id)
          [] k = "source" -> JsonString(e.source)
          [] k = "target" -> JsonString(e.target)
          [] k = "sourceHandle" -> option_to_value(e.source_handle)
          [] k = "targetHandle" -> option_to_value(e.target_handle)
          [] k = "type" -> option_to_value(e.edge_type)])

graph_payload_to_value(g) ==
    JsonObject([k \in {"nodes", "edges"} |->
        IF k = "nodes"
        THEN JsonArray([i \in 1..Len(g.nodes) |-> graph_node_to_value(g.nodes[i])])
        ELSE JsonArray([i \in 1..Len(g.edges) |-> graph_edge_to_value(g.edges[i])])])

PackRaw(text) == Packed("raw:", Base64Of(Utf8Bytes(text)))
PackGzip(text) == Packed("", Base64Of(GzipBytes(Utf8Bytes(text))))

VcePayload(rules_packed) ==
    JsonText(JsonObject([k \in {"version", "deployedAt", "rules_packed"} |->
        IF k = "rules_packed" THEN JsonString(rules_packed) ELSE JsonString("1")]))

\* LoadError
LoadErrors ==
    {"KeyNotFound", "Base64Error", "DecompressError", "JsonError", "InvalidFormat",
     "EmptyRules"}

\* The handler has not called load_graph_from_store yet.
NotLoaded == Err("NotLoaded")
NoGraph == [nodes |-> <<>>, edges |-> <<>>]

(***************************************************************************)
(* GraphResult and HeaderMod.                                              *)
(***************************************************************************)
Route(data) == [kind |-> "Route", backend |-> data]
Block(status_code, message) == [kind |-> "Block", status_code |-> status_code, message |-> message]
Redirect(url, status_code, preserve_query) ==
    [kind |-> "Redirect", url |-> url, status_code |-> status_code,
     preserve_query |-> preserve_query]
Allow == [kind |-> "Allow"]
NoMatch == [kind |-> "NoMatch"]
\* No GraphResult: evaluate has not returned.
NoResult == [kind |-> "none"]

GraphResultKinds == {"Route", "Block", "Redirect", "Allow", "NoMatch"}

HeaderModSet(name, value) == [op |-> "Set", name |-> name, value |-> value]
HeaderModAppend(name, value) == [op |-> "Append", name |-> name, value |-> value]
HeaderModRemove(name) == [op |-> "Remove", name |-> name]

\* Option<T>: unwrap_or on an optional field of a data object.
FieldOr(data, f, default) == IF f \in DOMAIN data THEN data[f] ELSE default

(***************************************************************************)
(* GraphInterpreter::new.                                                  *)
(***************************************************************************)
\* nodes.insert(node.id, node) for each node in order: the last node with
\* an id is the one the map keeps.
NodesIndex(g) ==
    [id \in {g.nodes[i].id : i \in 1..Len(g.nodes)} |->
        g.nodes[CHOOSE i \in 1..Len(g.nodes) :
                    /\ g.nodes[i].id = id
                    /\ \A j \in 1..Len(g.nodes) : g.nodes[j].id = id => j <= i]]

\* edges_from.entry(edge.source).or_default().push(edge) for each edge in
\* order: a source's edges keep the order of the graph's edge list.
EdgesFromIndex(g) ==
    [id \in {g.edges[i].source : i \in 1..Len(g.edges)} |->
        SelectSeq(g.edges, LAMBDA e : e.source = id)]

\* has_rate_limit as it would be if only the first node were looked at.
HasRateLimitFirstNode(g) == g.nodes # <<>> /\ g.nodes[1].node_type = "rateLimit"

\* graph.nodes.iter().any(|n| n.node_type == "rateLimit")
HasRateLimit(g) == \E i \in 1..Len(g.nodes) : g.nodes[i].node_type = "rateLimit"

\* What follow_path did last: nothing yet.
NoDispatch == [node |-> "", node_type |-> "", parsed |-> FALSE, handle |-> "",
               follow_calls |-> 0, followed |-> FALSE, target |-> ""]

\* No check_rate call yet, and a rate counter that has counted nothing.
NoCall == [entry |-> <<>>, delta |-> 0, window |-> "", limit |-> 0, ttl |-> 0]
NoCounts == [entry \in {} |-> 0]
NoHits == [entry \in {} |-> <<>>]

\* No evaluation before this one; no backend request built and no response
\* returned yet.
NoEvaluation == [result |-> NoResult, header_mods |-> <<>>, geo_cache |-> None,
                 req |-> None, visited |-> <<>>]
NoRequest == [sent |-> FALSE, sends |-> 0]
NoResponse == [status |-> 0]

\* The interpreter made for graph g and the handler about to evaluate
\* request r, with a rate store that is empty; store_tracked tells whether
\* the store serves this traffic only or is shared with traffic not seen
\* here (its answers are then any).
BeforeEvaluate(g, r, store_tracked) ==
    /\ graph = g
    /\ req = r
    /\ nodes = NodesIndex(g)
    /\ edges_from = EdgesFromIndex(g)
    /\ rate_limiter = HasRateLimit(g)
    /\ geo_cache = None
    /\ lookups = [geo |-> 0, device |-> 0]
    /\ header_mods = <<>>
    /\ node_id = ""
    /\ depth = 0
    /\ result = NoResult
    /\ dispatches = 0
    /\ visited = <<>>
    /\ check_calls = 0
    /\ lookup_calls = 0
    /\ rate_answer = "none"
    /\ check_rate_call = NoCall
    /\ counter = NoCounts
    /\ now = 0
    /\ hits = NoHits
    /\ penalty_box = NoCounts
    /\ rate_log = <<>>
    /\ tracked = store_tracked
    /\ instances = <<>>
    /\ last = NoDispatch
    /\ evaluations = 1
    /\ prev = NoEvaluation
    /\ backend_req = NoRequest
    /\ response = NoResponse

\* A load that succeeded before the behaviour starts: what it returned is
\* the graph the interpreter borrows.
LoadedBefore == [ok |-> TRUE]

\* The handler has loaded graph g from the store and made the interpreter.
\* The store is not read again for this request; whatever it holds by
\* now, here it holds nothing.
NewWith(g, r, store_tracked) ==
    /\ BeforeEvaluate(g, r, store_tracked)
    /\ pc = "idle"
    /\ config_store = None
    /\ load = LoadedBefore

New(g, r) == NewWith(g, r, FALSE)

Init ==
    \E ns \in NodeLists : \E k \in 0..MaxEdges : \E es \in [1..k -> EdgeChoices(ns)] :
        \E r \in Requests : New([nodes |-> ns, edges |-> es], r)

(***************************************************************************)
(* Operations on strings (sequences of one-character strings).             *)
(***************************************************************************)
\* str::starts_with, str::ends_with, str::contains with a string pattern.
starts_with(s, p) == Len(p) <= Len(s) /\ SubSeq(s, 1, Len(p)) = p
ends_with(s, p) == Len(p) <= Len(s) /\ SubSeq(s, Len(s) - Len(p) + 1, Len(s)) = p
contains(s, p) == \E i \in 0..(Len(s) - Len(p)) : SubSeq(s, i + 1, i + Len(p)) = p

\* str::trim: leading and trailing white space removed.
WhiteSpace == {" "}
RECURSIVE trim_start(_)
trim_start(s) == IF s # <<>> /\ Head(s) \in WhiteSpace THEN trim_start(Tail(s)) ELSE s
RECURSIVE trim_end(_)
trim_end(s) ==
    IF s # <<>> /\ s[Len(s)] \in WhiteSpace THEN trim_end(SubSeq(s, 1, Len(s) - 1)) ELSE s
trim(s) == trim_end(trim_start(s))

\* str::split(sep): the pieces between the separators, in order; a string
\* without separator is its own single piece, the empty string included.
RECURSIVE split(_, _)
split(s, sep) ==
    IF \A i \in 1..Len(s) : s[i] # sep
    THEN <<s>>
    ELSE LET i == CHOOSE k \in 1..Len(s) : s[k] = sep /\ \A j \in 1..(k - 1) : s[j] # sep
         IN  <<SubSeq(s, 1, i - 1)>> \o split(SubSeq(s, i + 1, Len(s)), sep)

\* value.split(',').map(|s| s.trim())
split_trimmed(value) ==
    LET pieces == split(value, ",") IN [i \in 1..Len(pieces) |-> trim(pieces[i])]

\* Decimal digits and the number a string of digits denotes.
Digits == <<"0", "1", "2", "3", "4", "5", "6", "7", "8", "9">>
IsDigit(c) == \E d \in 1..Len(Digits) : Digits[d] = c
DigitValue(c) == (CHOOSE d \in 1..Len(Digits) : Digits[d] = c) - 1
IsDigits(s) == \A i \in 1..Len(s) : IsDigit(s[i])
RECURSIVE DecimalValue(_)
DecimalValue(s) ==
    IF s = <<>> THEN 0
    ELSE 10 * DecimalValue(SubSeq(s, 1, Len(s) - 1)) + DigitValue(s[Len(s)])
RECURSIVE Pow(_, _)
Pow(b, e) == IF e = 0 THEN 1 ELSE b * Pow(b, e - 1)

\* str::parse::<f64>, for decimal literals without exponent: an optional
\* sign, digits, and optionally a point and more digits, with a digit on at
\* least one side of the point.  Ok is the number num / 10^scale.
parse_f64(s) ==
    LET signed == s # <<>> /\ Head(s) \in {"-", "+"}
        body == IF signed THEN Tail(s) ELSE s
        parts == split(body, ".")
        whole == parts[1]
        frac == IF Len(parts) = 2 THEN parts[2] ELSE <<>>
        ok == /\ Len(parts) <= 2
              /\ IsDigits(whole) /\ IsDigits(frac)
              /\ Len(whole) + Len(frac) > 0
        magnitude == DecimalValue(whole \o frac)
    IN  IF ok
        THEN Some([num |-> IF signed /\ Head(s) = "-" THEN 0 - magnitude ELSE magnitude,
                   scale |-> Len(frac)])
        ELSE None

\* a < b and a <= b for two parsed numbers.
f64_lt(a, b) == a.num * Pow(10, b.scale) < b.num * Pow(10, a.scale)
f64_le(a, b) == a.num * Pow(10, b.scale) <= b.num * Pow(10, a.scale)

\* str::parse::<IpAddr>, for IPv4 addresses in dotted decimal notation:
\* four numbers of one to three digits, none above 255 and none with a
\* leading zero.  Ok is the address as its four octets.
Octet(s) ==
    IF /\ Len(s) \in 1..3
       /\ IsDigits(s)
       /\ (Len(s) > 1 => s[1] # "0")
       /\ DecimalValue(s) <= 255
    THEN Some(DecimalValue(s))
    ELSE None

parse_ip(s) ==
    LET parts == split(s, ".")
        octets == [i \in 1..Len(parts) |-> Octet(parts[i])]
    IN  IF Len(parts) = 4 /\ \A i \in 1..4 : octets[i].some
        THEN Some([i \in 1..4 |-> octets[i].v])
        ELSE None

\* str::parse::<IpNet>, for IPv4 networks: an address, a slash and a prefix
\* length of at most 32.
parse_net(s) ==
    LET parts == split(s, "/")
        addr == parse_ip(parts[1])
        prefix == IF Len(parts) = 2 THEN parts[2] ELSE <<>>
    IN  IF /\ Len(parts) = 2
           /\ addr.some
           /\ Len(prefix) \in 1..2 /\ IsDigits(prefix)
           /\ DecimalValue(prefix) <= 32
        THEN Some([addr |-> addr.v, prefix_len |-> DecimalValue(prefix)])
        ELSE None

\* IpNet::contains: the address agrees with the network on the prefix bits,
\* that is on the octets the prefix covers and on the leading bits of the
\* octet it ends in.
net_contains(net, ip) ==
    LET whole == net.prefix_len \div 8
        bits == net.prefix_len % 8
        rest == Pow(2, 8 - bits)
    IN  /\ \A i \in 1..whole : ip[i] = net.addr[i]
        /\ bits > 0 => ip[whole + 1] \div rest = net.addr[whole + 1] \div rest

\* regex::Regex::new, for patterns of literal characters, groups and the two
\* anchors: a group that is not closed, or closed without being opened, is
\* an error.
RECURSIVE group_depths(_, _)
group_depths(p, d) ==
    IF p = <<>> THEN <<d>>
    ELSE LET next == IF Head(p) = "(" THEN d + 1
                     ELSE IF Head(p) = ")" THEN d - 1 ELSE d
         IN  <<d>> \o group_depths(Tail(p), next)

regex_new(p) ==
    LET depths == group_depths(p, 0)
    IN  IF depths[Len(depths)] = 0 /\ \A i \in 1..Len(depths) : depths[i] >= 0
        THEN Some(p)
        ELSE None

\* Regex::is_match for such a pattern: its literal characters occur in the
\* text, at the start after "^" and at the end before "$".
is_match(re, text) ==
    LET flat == SelectSeq(re, LAMBDA c : c \notin {"(", ")"})
        at_start == flat # <<>> /\ Head(flat) = "^"
        rest == IF at_start THEN Tail(flat) ELSE flat
        at_end == rest # <<>> /\ rest[Len(rest)] = "$"
        literal == IF at_end THEN SubSeq(rest, 1, Len(rest) - 1) ELSE rest
    IN  CASE at_start /\ at_end -> text = literal
          [] at_start           -> starts_with(text, literal)
          [] at_end             -> ends_with(text, literal)
          [] OTHER              -> contains(text, literal)

(***************************************************************************)
(* Field resolution and condition evaluation.                              *)
(***************************************************************************)
\* req.get_header_str(name)
get_header_str(r, name) ==
    IF name \in DOMAIN r.headers THEN Some(r.headers[name]) ELSE None

\* a.or_else(|| b)
or_else(a, b) == IF a.some THEN a ELSE b

\* get_geo: the cached lookup if there is one, else geo_lookup for the
\* client address (None without address).
geo_lookup(r) == IF r.client_ip.some THEN r.geo ELSE None
get_geo(r) == IF geo_cache.some THEN geo_cache.v ELSE geo_lookup(r)

\* get_device: device_lookup for the user agent, every time (the answer
\* of the service is an attribute of the request here).
device_lookup(r) == IF "device" \in DOMAIN r THEN r.device ELSE None
get_device(r) == device_lookup(r)

\* The fields whose resolution calls get_geo, among those below, and the
\* fields whose resolution calls get_device.
GeoFields == {"country", "countryCode3"}
DeviceFields == {"isBot", "browserName"}

\* The calls get_device makes of device_lookup for these fields.
device_calls(fields) == Len(fields)

\* The calls of geo_lookup and device_lookup after the fields were
\* resolved in order: get_geo calls geo_lookup when the cache is empty and
\* the request has a client address, get_device calls device_lookup.
lookups_after(fields, r) ==
    [geo |-> lookups.geo +
                (IF /\ \E i \in 1..Len(fields) : fields[i] \in GeoFields
                    /\ ~geo_cache.some
                    /\ r.client_ip.some
                 THEN 1 ELSE 0),
     device |-> lookups.device +
                   device_calls(SelectSeq(fields, LAMBDA f : f \in DeviceFields))]

\* geo_cache after the fields were resolved: get_geo fills an empty cache.
geo_cache_after(fields, r) ==
    IF fields \cap GeoFields # {} /\ ~geo_cache.some
    THEN Some(geo_lookup(r))
    ELSE geo_cache

\* req.get_method_str(): GET for the requests that name no method.
get_method_str(r) == IF "method" \in DOMAIN r THEN r.method ELSE <<"G", "E", "T">>

\* get_field_value, for the fields the graphs here name: the path, the
\* method, the client address, two geo fields, two device fields, the user
\* agent, the two TLS fingerprints, and any other name as a header.
get_field_value(field, r) ==
    CASE field = "path" -> Some(r.path)
      [] field = "method" -> Some(get_method_str(r))
      [] field \in {"clientIp", "client-ip", "ip"} ->
            or_else(r.client_ip,
              or_else(get_header_str(r, "fastly-client-ip"),
                LET xff == get_header_str(r, "x-forwarded-for")
                IN  IF xff.some THEN Some(trim(split(xff.v, ",")[1])) ELSE None))
      [] field = "country" ->
            LET geo == get_geo(r)
            IN  IF geo.some THEN Some(geo.v.country_code)
                ELSE get_header_str(r, "fastly-client-geo-country")
      [] field = "countryCode3" ->
            LET geo == get_geo(r)
            IN  IF geo.some THEN Some(geo.v.country_code3) ELSE None
      [] field = "isBot" ->
            LET d == get_device(r)
            IN  IF d.some /\ d.v.is_bot.some THEN d.v.is_bot
                ELSE Some(<<"f", "a", "l", "s", "e">>)
      [] field = "browserName" ->
            LET d == get_device(r)
            IN  IF d.some THEN d.v.user_agent_name ELSE None
      [] field \in {"userAgent", "user-agent"} -> get_header_str(r, "user-agent")
      [] field = "ja3" ->
            or_else(get_header_str(r, "fastly-client-ja3-md5"), get_header_str(r, "tls-ja3-md5"))
      [] field = "ja4" ->
            or_else(get_header_str(r, "fastly-client-ja4"), get_header_str(r, "tls-ja4"))
      [] OTHER -> get_header_str(r, field)

\* The field a condition reads: for the custom header field, its headerName.
effective_field(data) ==
    IF data.field = "header" THEN FieldOr(data, "headerName", "header") ELSE data.field

\* One of the four numeric comparisons: both operands parsed, false when
\* either does not parse.
compare_f64(field_value_str, value, ordering) ==
    LET a == parse_f64(field_value_str)
        b == parse_f64(value)
    IN  IF a.some /\ b.some
        THEN CASE ordering = ">"  -> f64_lt(b.v, a.v)
               [] ordering = "<"  -> f64_lt(a.v, b.v)
               [] ordering = ">=" -> f64_le(b.v, a.v)
               [] ordering = "<=" -> f64_le(a.v, b.v)
        ELSE FALSE

\* field_value.as_deref().unwrap_or("") as it would be if an unresolved
\* field read as a dash.
UnwrapOrDash(field_value) == IF field_value.some THEN field_value.v ELSE <<"-">>

\* field_value.as_deref().unwrap_or("")
unwrap_or_default(field_value) == IF field_value.some THEN field_value.v ELSE <<>>

\* evaluate_condition as it would be if an unknown operator were true.
UnknownOperatorTrue == TRUE

UnknownOperator == FALSE

\* The value a condition compares as it would be if the custom header
\* field read the header of its headerName directly.
HeaderFieldReadsHeader(data, r) ==
    IF data.field = "header"
    THEN get_header_str(r, FieldOr(data, "headerName", "header"))
    ELSE get_field_value(data.field, r)

\* self.get_field_value(effective_field, req)
condition_field_value(data, r) == get_field_value(effective_field(data), r)

evaluate_condition(data, r) ==
    LET field_value == condition_field_value(data, r)
        field_value_str == unwrap_or_default(field_value)
        members == split_trimmed(data.value)
        in_list == \E i \in 1..Len(members) : field_value_str = members[i]
        operator == data.operator
    IN  CASE operator = "equals" -> field_value_str = data.value
          [] operator \in {"startsWith", "starts"} -> starts_with(field_value_str, data.value)
          [] operator \in {"endsWith", "ends"} -> ends_with(field_value_str, data.value)
          [] operator = "contains" -> contains(field_value_str, data.value)
          [] operator = "notContains" -> ~contains(field_value_str, data.value)
          [] operator \in {"notEquals", "!="} -> field_value_str # data.value
          [] operator = "in" -> in_list
          [] operator \in {"notIn", "!in"} -> ~in_list
          [] operator = "matches" ->
                LET re == regex_new(data.value)
                IN  IF re.some THEN is_match(re.v, field_value_str) ELSE FALSE
          [] operator = "inCidr" ->
                IF field_value.some
                THEN LET ip == parse_ip(field_value.v)
                     IN  IF ip.some
                         THEN \E i \in 1..Len(members) :
                                 LET net == parse_net(members[i])
                                 IN  IF net.some THEN net_contains(net.v, ip.v) ELSE FALSE
                         ELSE FALSE
                ELSE FALSE
          [] operator \in {"greaterThan", ">"} ->
                compare_f64(field_value_str, data.value, ">")
          [] operator \in {"lessThan", "<"} ->
                compare_f64(field_value_str, data.value, "<")
          [] operator \in {"greaterOrEqual", ">="} ->
                compare_f64(field_value_str, data.value, ">=")
          [] operator \in {"lessOrEqual", "<="} ->
                compare_f64(field_value_str, data.value, "<=")
          [] operator = "exists" -> field_value.some /\ field_value_str # <<>>
          [] operator = "notExists" -> ~field_value.some \/ field_value_str = <<>>
          [] OTHER -> UnknownOperator

\* String::to_uppercase, for the logic strings the graphs here carry.
to_uppercase(s) ==
    CASE s = "and" -> "AND"
      [] s = "or"  -> "OR"
      [] s = "not" -> "NOT"
      [] s = "Or"  -> "OR"
      [] OTHER     -> s

\* evaluate_rule_group as it would be if an unknown logic were OR.
RuleGroupUnknownLogicAny(results) == \E i \in 1..Len(results) : results[i]

\* The default arm of evaluate_rule_group: default to AND.
RuleGroupUnknownLogic(results) == \A i \in 1..Len(results) : results[i]

evaluate_rule_group(data, r) ==
    LET logic == to_uppercase(data.logic)
        results == [i \in 1..Len(data.conditions) |->
                        evaluate_condition(data.conditions[i], r)]
    IN  IF data.conditions = <<>> THEN TRUE
        ELSE CASE logic = "AND" -> \A i \in 1..Len(results) : results[i]
               [] logic = "OR"  -> \E i \in 1..Len(results) : results[i]
               [] logic = "NOT" -> ~\E i \in 1..Len(results) : results[i]
               [] OTHER         -> RuleGroupUnknownLogic(results)

\* The fields the conditions of a ruleGroup read, in the order in which
\* they are read, and as a set.
condition_fields(data) ==
    [i \in 1..Len(data.conditions) |-> effective_field(data.conditions[i])]
rule_group_fields(data) ==
    {effective_field(data.conditions[i]) : i \in 1..Len(data.conditions)}

(***************************************************************************)
(* follow_outgoing.                                                        *)
(***************************************************************************)
\* The edges of edges_from[id] that pass the handle filter, in order; a
\* given handle (Some(h)) keeps the edges whose sourceHandle is Some(h),
\* no handle (None) keeps them all.
matching_edges(id, source_handle) ==
    IF id \in DOMAIN edges_from
    THEN SelectSeq(edges_from[id],
                   LAMBDA e : source_handle = NoHandle \/ e.source_handle = source_handle)
    ELSE <<>>

\* follow_outgoing as it would be if it followed the last matching edge.
FollowOutgoingLast(id, source_handle) ==
    LET m == matching_edges(id, source_handle)
    IN  IF m = <<>> THEN [followed |-> FALSE, target |-> ""]
        ELSE [followed |-> TRUE, target |-> m[Len(m)].target]

\* The edge follow_outgoing follows: the first matching edge, if any.
FollowOutgoing(id, source_handle) ==
    LET m == matching_edges(id, source_handle)
    IN  IF m = <<>> THEN [followed |-> FALSE, target |-> ""]
        ELSE [followed |-> TRUE, target |-> m[1].target]

(***************************************************************************)
(* Calls and returns.                                                      *)
(***************************************************************************)
\* evaluate returns r: the stack unwinds.
Return(r) ==
    /\ pc' = "done"
    /\ result' = r
    /\ depth' = 0
    /\ UNCHANGED node_id

\* self.follow_path(target, req): one more frame, unless the stack is full.
Call(target) ==
    IF depth < StackLimit
    THEN /\ pc' = "follow_path"
         /\ node_id' = target
         /\ depth' = depth + 1
         /\ UNCHANGED result
    ELSE /\ pc' = "overflow"
         /\ UNCHANGED <<node_id, depth, result>>

\* The dispatch of node n ends in self.follow_outgoing(node_id, handle, req).
Follow(n, parsed, handle) ==
    LET out == FollowOutgoing(n.id, handle)
    IN  /\ last' = [node |-> n.id, node_type |-> n.node_type, parsed |-> parsed,
                    handle |-> handle, follow_calls |-> 1,
                    followed |-> out.followed, target |-> out.target]
        /\ dispatches' = dispatches + 1
        /\ visited' = Append(visited, n.id)
        /\ IF out.followed THEN Call(out.target) ELSE Return(NoMatch)

\* The dispatch of node n returns r without calling follow_outgoing.
Finish(n, parsed, r) ==
    /\ last' = [node |-> n.id, node_type |-> n.node_type, parsed |-> parsed,
                handle |-> "", follow_calls |-> 0, followed |-> FALSE, target |-> ""]
    /\ dispatches' = dispatches + 1
    /\ visited' = Append(visited, n.id)
    /\ Return(r)

ThisNode == nodes[node_id]
Dispatching(node_type) ==
    /\ pc = "follow_path"
    /\ node_id \in DOMAIN nodes
    /\ ThisNode.node_type = node_type

(***************************************************************************)
(* evaluate and follow_path, one action per match arm.                     *)
(***************************************************************************)
\* self.nodes.values().find(|n| n.node_type == "request"): the first request
\* node in the map's iteration order, which is any of them.
Evaluate ==
    /\ pc = "idle"
    /\ LET request_nodes == {id \in DOMAIN nodes : nodes[id].node_type = "request"}
       IN  IF request_nodes = {}
           THEN Return(NoMatch)
           ELSE \E id \in request_nodes : Call(id)
    /\ UNCHANGED <<graph, req, nodes, edges_from, rate_limiter, geo_cache, lookups, header_mods,
                   dispatches, visited, last>>
    /\ UNCHANGED <<rate_vars, caller_vars>>

\* follow_path as it would be if a missing node let the request through.
FollowPathMissingAllow ==
    /\ pc = "follow_path"
    /\ node_id \notin DOMAIN nodes
    /\ Return(Allow)
    /\ UNCHANGED <<graph, req, nodes, edges_from, rate_limiter, geo_cache, lookups, header_mods,
                   dispatches, visited, last>>
    /\ UNCHANGED <<rate_vars, caller_vars>>

\* self.nodes.get(node_id) is None.
FollowPathMissing ==
    /\ pc = "follow_path"
    /\ node_id \notin DOMAIN nodes
    /\ Return(NoMatch)
    /\ UNCHANGED <<graph, req, nodes, edges_from, rate_limiter, geo_cache, lookups, header_mods,
                   dispatches, visited, last>>
    /\ UNCHANGED <<rate_vars, caller_vars>>

FollowPathRequest ==
    /\ Dispatching("request")
    /\ Follow(ThisNode, TRUE, NoHandle)
    /\ UNCHANGED <<graph, req, nodes, edges_from, rate_limiter, geo_cache, lookups, header_mods>>
    /\ UNCHANGED <<rate_vars, caller_vars>>

RuleGroupParseError(n) == Finish(n, FALSE, NoMatch)

RuleGroupHandle(matches) == IF matches THEN "match" ELSE "noMatch"

FollowPathRuleGroup ==
    /\ Dispatching("ruleGroup")
    /\ IF ~ParsesAs("ruleGroup", ThisNode.data)
       THEN RuleGroupParseError(ThisNode)
       ELSE Follow(ThisNode, TRUE,
                   RuleGroupHandle(evaluate_rule_group(ThisNode.data, req)))
    /\ geo_cache' = IF ParsesAs("ruleGroup", ThisNode.data)
                    THEN geo_cache_after(rule_group_fields(ThisNode.data), req)
                    ELSE geo_cache
    /\ lookups' = IF ParsesAs("ruleGroup", ThisNode.data)
                  THEN lookups_after(condition_fields(ThisNode.data), req)
                  ELSE lookups
    /\ UNCHANGED <<graph, req, nodes, edges_from, rate_limiter, header_mods>>
    /\ UNCHANGED <<rate_vars, caller_vars>>

\* The condition arm's parse error as it would be if it passed through.
ConditionParseErrorPassThrough(n) == Follow(n, FALSE, NoHandle)

ConditionParseError(n) == Finish(n, FALSE, NoMatch)

\* The condition arm's handles as they would be if it used the ruleGroup's.
ConditionHandleAsRuleGroup(matches) == IF matches THEN "match" ELSE "noMatch"

ConditionHandle(matches) == IF matches THEN "true" ELSE "false"

FollowPathCondition ==
    /\ Dispatching("condition")
    /\ IF ~ParsesAs("condition", ThisNode.data)
       THEN ConditionParseError(ThisNode)
       ELSE Follow(ThisNode, TRUE,
                   ConditionHandle(evaluate_condition(ThisNode.data, req)))
    /\ geo_cache' = IF ParsesAs("condition", ThisNode.data)
                    THEN geo_cache_after({effective_field(ThisNode.data)}, req)
                    ELSE geo_cache
    /\ lookups' = IF ParsesAs("condition", ThisNode.data)
                  THEN lookups_after(<<effective_field(ThisNode.data)>>, req)
                  ELSE lookups
    /\ UNCHANGED <<graph, req, nodes, edges_from, rate_limiter, header_mods>>
    /\ UNCHANGED <<rate_vars, caller_vars>>

\* The action arm's parse error as it would be if it ended like the
\* ruleGroup arm's.
ActionParseErrorNoMatch(n) == Finish(n, FALSE, NoMatch)

ActionParseError(n) == Finish(n, FALSE, Block(500, "Invalid action config"))

\* The action arm as it would be if an action it does not know let the
\* request through.
ActionResultUnknownAllows(data) ==
    CASE data.action = "block" ->
            Block(FieldOr(data, "statusCode", 403), FieldOr(data, "message", "Blocked"))
      [] data.action = "redirect" ->
            Redirect(FieldOr(data, "url", "/"), FieldOr(data, "statusCode", 302),
                     FieldOr(data, "preserveQuery", TRUE))
      [] OTHER -> Allow

\* The GraphResult of a well-formed action node.
ActionResult(data) ==
    CASE data.action = "block" ->
            Block(FieldOr(data, "statusCode", 403), FieldOr(data, "message", "Blocked"))
      [] data.action = "allow" -> Allow
      [] data.action = "redirect" ->
            Redirect(FieldOr(data, "url", "/"), FieldOr(data, "statusCode", 302),
                     FieldOr(data, "preserveQuery", TRUE))
      [] OTHER ->
            Block(FieldOr(data, "statusCode", 403), FieldOr(data, "message", "Blocked"))

FollowPathAction ==
    /\ Dispatching("action")
    /\ IF ~ParsesAs("action", ThisNode.data)
       THEN ActionParseError(ThisNode)
       ELSE Finish(ThisNode, TRUE, ActionResult(ThisNode.data))
    /\ UNCHANGED <<graph, req, nodes, edges_from, rate_limiter, geo_cache, lookups, header_mods>>
    /\ UNCHANGED <<rate_vars, caller_vars>>

\* The backend arm's parse error as it would be if it passed through.
BackendParseErrorPassThrough(n) == Follow(n, FALSE, NoHandle)

BackendParseError(n) == Finish(n, FALSE, NoMatch)

FollowPathBackend ==
    /\ Dispatching("backend")
    /\ IF ~ParsesAs("backend", ThisNode.data)
       THEN BackendParseError(ThisNode)
       ELSE Finish(ThisNode, TRUE, Route(ThisNode.data))
    /\ UNCHANGED <<graph, req, nodes, edges_from, rate_limiter, geo_cache, lookups, header_mods>>
    /\ UNCHANGED <<rate_vars, caller_vars>>

\* What ERL::check_rate may answer: Ok(true), Ok(false) or Err.
CheckRateAnswers == {"blocked", "passed", "error"}

\* The string "unknown".
Unknown == <<"u", "n", "k", "n", "o", "w", "n">>

\* a.unwrap_or_else(|| default)
unwrap_or(a, default) == IF a.some THEN a.v ELSE default

\* get_rate_limit_key as it would be if it tried JA3 before JA4.
RateLimitKeyJa3First(data, r) ==
    CASE data.keyBy = "ip" -> unwrap_or(get_field_value("clientIp", r), Unknown)
      [] data.keyBy = "fingerprint" ->
            unwrap_or(or_else(get_field_value("ja3", r), get_field_value("ja4", r)), Unknown)
      [] data.keyBy = "header" ->
            IF "headerName" \in DOMAIN data
            THEN unwrap_or(get_header_str(r, data.headerName), Unknown)
            ELSE Unknown
      [] data.keyBy = "path" -> r.path
      [] OTHER -> Unknown

\* get_rate_limit_key: the entry the node counts, chosen by keyBy.
get_rate_limit_key(data, r) ==
    CASE data.keyBy = "ip" -> unwrap_or(get_field_value("clientIp", r), Unknown)
      [] data.keyBy = "fingerprint" ->
            unwrap_or(or_else(get_field_value("ja4", r), get_field_value("ja3", r)), Unknown)
      [] data.keyBy = "header" ->
            IF "headerName" \in DOMAIN data
            THEN unwrap_or(get_header_str(r, data.headerName), Unknown)
            ELSE Unknown
      [] data.keyBy = "path" -> r.path
      [] OTHER -> Unknown

\* The window, the limit and the penalty box ttl given to check_rate.
RateWindowSixtySecs(data) == "SixtySecs"
rate_window(data) == IF data.windowUnit = "second" THEN "OneSec" ELSE "SixtySecs"
RpsLimitUnscaled(data) == data.limit
rps_limit(data) == IF data.windowUnit = "hour" THEN data.limit \div 60 ELSE data.limit
PenaltyTtlTwoMinutes(data) == 120
penalty_ttl(data) == IF data.windowUnit = "hour" THEN 600 ELSE 120

\* The delta erl.check_rate is called with.
CheckRateDelta == 1

\* The count the platform holds for an entry.
Count(counts, entry) == IF entry \in DOMAIN counts THEN counts[entry] ELSE 0

\* The counts after delta was added to an entry's.
Increment(counts, entry, delta) ==
    [e \in DOMAIN counts \cup {entry} |->
        IF e = entry THEN Count(counts, e) + delta ELSE counts[e]]

\* RateCounter::lookup_count as it would be if a lookup counted as a request.
LookupCountCounts(counts, entry) == Increment(counts, entry, 1)

\* RateCounter::lookup_count: the counts after a lookup, which reads them.
lookup_count(counts, entry) == counts

\* ERL::check_rate: an answered call has added delta to the entry's count; a
\* failed call may or may not have (counted tells).
check_rate(counts, call, answer, counted) ==
    IF answer # "error" \/ counted THEN Increment(counts, call.entry, call.delta) ELSE counts

\* The rate service behind check_rate, when its store serves this traffic
\* only: the counting windows in seconds, the increments of an entry that
\* fall into the window ending at a time, and whether an entry is in the
\* penalty box at a time.
window_secs(window) == IF window = "OneSec" THEN 1 ELSE 60
HitsOf(store, entry) == IF entry \in DOMAIN store THEN store[entry] ELSE <<>>
window_total(store, entry, window, at) ==
    LET times == HitsOf(store, entry)
    IN  Cardinality({i \in 1..Len(times) : times[i] > at - window_secs(window)})
in_penalty_box(box, entry, at) == entry \in DOMAIN box /\ at < box[entry]

\* The store after delta increments of an entry at a time.
RECURSIVE record_hits(_, _, _, _)
record_hits(store, entry, delta, at) ==
    IF delta = 0 THEN store
    ELSE record_hits([e \in DOMAIN store \cup {entry} |->
                        IF e = entry THEN Append(HitsOf(store, e), at) ELSE store[e]],
                     entry, delta - 1, at)

\* The service's decision on a call: an entry in the penalty box is
\* exceeded without being judged; any other entry is counted and is
\* exceeded when its window total is above the limit.
over_limit(call) ==
    window_total(record_hits(hits, call.entry, call.delta, now), call.entry,
                 call.window, now) > call.limit
check_and_increment(call) ==
    IF in_penalty_box(penalty_box, call.entry, now) \/ over_limit(call)
    THEN "blocked"
    ELSE "passed"

\* What check_rate may answer to a call: the service's decision or an
\* error; anything when the store is shared with traffic not seen here.
check_rate_answers(call) ==
    IF tracked THEN {check_and_increment(call), "error"} ELSE CheckRateAnswers

\* The rateLimit arm's parse error as it would be if it failed closed.
RateLimitParseErrorFailClosed(n) ==
    /\ Follow(n, FALSE, "exceeded")
    /\ UNCHANGED rate_vars

\* Fail open - continue to the "ok" path, before any call to the rate service.
RateLimitParseError(n) ==
    /\ Follow(n, FALSE, "ok")
    /\ UNCHANGED rate_vars

\* The arm's decision as it would be if it were taken from the count the
\* debug lookup reads after the check.
ExceededByCount(answer, count_before, count_after, limit) == count_after > limit

\* Ok(is_blocked) => is_blocked, Err(e) => false: the counts the debug
\* lookups read are printed and decide nothing.
is_exceeded(answer, count_before, count_after, limit) == answer = "blocked"

RateLimitHandle(exceeded) == IF exceeded THEN "exceeded" ELSE "ok"

\* The well-formed rateLimit arm: the debug lookup before the check, the
\* check (when there is a rate limiter), the debug lookup after an Ok
\* answer, and the handle chosen by the answer.
\* erl.check_rate(&entry, 1, window, rps_limit, ttl)
RateLimitCall(data) ==
    [entry |-> get_rate_limit_key(data, req), delta |-> CheckRateDelta,
     window |-> rate_window(data), limit |-> rps_limit(data), ttl |-> penalty_ttl(data)]

RateLimitCheck(n, answer, counted) ==
    LET call == RateLimitCall(n.data)
        entry == call.entry
        before == lookup_count(counter, entry)
        checked == check_rate(before, call, answer, counted)
        after == IF answer = "error" THEN checked ELSE lookup_count(checked, entry)
        exceeded == IF rate_limiter
                    THEN is_exceeded(answer, Count(before, entry), Count(after, entry),
                                     call.limit)
                    ELSE FALSE
    IN  /\ check_calls' = IF rate_limiter THEN check_calls + 1 ELSE check_calls
        /\ rate_answer' = IF rate_limiter THEN answer ELSE rate_answer
        /\ check_rate_call' = IF rate_limiter THEN call ELSE check_rate_call
        /\ counter' = IF rate_limiter THEN after ELSE counter
        /\ lookup_calls' =
              IF rate_limiter
              THEN lookup_calls + (IF answer = "error" THEN 1 ELSE 2)
              ELSE lookup_calls
        /\ hits' = IF tracked /\ rate_limiter /\ (answer # "error" \/ counted)
                    THEN record_hits(hits, entry, call.delta, now)
                    ELSE hits
        /\ penalty_box' =
              IF /\ tracked /\ rate_limiter /\ answer # "error"
                 /\ ~in_penalty_box(penalty_box, entry, now) /\ over_limit(call)
              THEN [e \in DOMAIN penalty_box \cup {entry} |->
                        IF e = entry THEN now + call.ttl ELSE penalty_box[e]]
              ELSE penalty_box
        /\ rate_log' =
              IF tracked
              THEN Append(rate_log, [node |-> n.id, at |-> now, call |-> call,
                                     answer |-> answer, counted |-> counted,
                                     handle |-> RateLimitHandle(exceeded)])
              ELSE rate_log
        /\ UNCHANGED <<now, tracked, instances>>
        /\ Follow(n, TRUE, RateLimitHandle(exceeded))

FollowPathRateLimit ==
    /\ Dispatching("rateLimit")
    /\ IF ~ParsesAs("rateLimit", ThisNode.data)
       THEN RateLimitParseError(ThisNode)
       ELSE \E answer \in check_rate_answers(RateLimitCall(ThisNode.data)) :
               \E counted \in (IF answer = "error" THEN BOOLEAN ELSE {TRUE}) :
                   RateLimitCheck(ThisNode, answer, counted)
    /\ UNCHANGED <<graph, req, nodes, edges_from, rate_limiter, geo_cache, lookups, header_mods>>
    /\ UNCHANGED caller_vars

HeaderParseError(n) == Follow(n, FALSE, NoHandle)

\* The HeaderMod a well-formed header node collects, if any.
header_mod(data) ==
    CASE data.operation = "set" ->
            <<HeaderModSet(data.name, FieldOr(data, "value", <<>>))>>
      [] data.operation = "append" ->
            <<HeaderModAppend(data.name, FieldOr(data, "value", <<>>))>>
      [] data.operation = "remove" -> <<HeaderModRemove(data.name)>>
      [] OTHER -> <<>>

HeaderHandle == "next"

FollowPathHeader ==
    /\ Dispatching("header")
    /\ IF ~ParsesAs("header", ThisNode.data)
       THEN /\ HeaderParseError(ThisNode)
            /\ UNCHANGED header_mods
       ELSE /\ header_mods' = header_mods \o header_mod(ThisNode.data)
            /\ Follow(ThisNode, TRUE, HeaderHandle)
    /\ UNCHANGED <<graph, req, nodes, edges_from, rate_limiter, geo_cache, lookups>>
    /\ UNCHANGED <<rate_vars, caller_vars>>

RedirectParseError(n) == Finish(n, FALSE, Block(500, "Invalid redirect config"))

RedirectResult(data) ==
    Redirect(data.url, FieldOr(data, "statusCode", 302),
             FieldOr(data, "preserveQuery", TRUE))

FollowPathRedirect ==
    /\ Dispatching("redirect")
    /\ IF ~ParsesAs("redirect", ThisNode.data)
       THEN RedirectParseError(ThisNode)
       ELSE Finish(ThisNode, TRUE, RedirectResult(ThisNode.data))
    /\ UNCHANGED <<graph, req, nodes, edges_from, rate_limiter, geo_cache, lookups, header_mods>>
    /\ UNCHANGED <<rate_vars, caller_vars>>

\* The unknown-kind arm as it would be if it followed the "next" handle.
UnknownNodeNext(n) == Follow(n, FALSE, "next")

\* Unknown node type: the node's data is not read.
UnknownNode(n) == Follow(n, FALSE, NoHandle)

FollowPathUnknown ==
    /\ pc = "follow_path"
    /\ node_id \in DOMAIN nodes
    /\ ThisNode.node_type \notin KnownTypes
    /\ UnknownNode(ThisNode)
    /\ UNCHANGED <<graph, req, nodes, edges_from, rate_limiter, geo_cache, lookups, header_mods>>
    /\ UNCHANGED <<rate_vars, caller_vars>>

Next ==
    \/ Evaluate
    \/ FollowPathMissing
    \/ FollowPathRequest
    \/ FollowPathRuleGroup
    \/ FollowPathCondition
    \/ FollowPathAction
    \/ FollowPathBackend
    \/ FollowPathRateLimit
    \/ FollowPathHeader
    \/ FollowPathRedirect
    \/ FollowPathUnknown

Spec == Init /\ [][Next]_vars

(***************************************************************************)
(* Graphs of one ruleGroup or condition node, for the evaluation of        *)
(* conditions: request -> node, the node's positive handle to a block      *)
(* action and its negative handle to a node that is missing.               *)
(***************************************************************************)
UsGeo == [country_code |-> <<"U", "S">>, country_code3 |-> <<"U", "S", "A">>]

BlockData == [action |-> "block", statusCode |-> 451, message |-> "No"]

\* Longest condition list of a ruleGroup.
MaxConditions == 2

\* A condition of a ruleGroup: a condition with an id.
RuleGroupCondition(id, c) ==
    [id |-> id, field |-> c.field, operator |-> c.operator, value |-> c.value]

\* The condition lists of at most n entries over the two path conditions,
\* one of which holds for the requests here.
ConditionLists(n) ==
    UNION {{[i \in 1..k |-> RuleGroupCondition("c", cs[i])] : cs \in [1..k -> Conditions]}
           : k \in 0..n}

\* The spellings of the logic of a ruleGroup: the three the editor writes,
\* other cases of them, and one unknown logic.
LogicValues == {"AND", "OR", "NOT", "and", "or", "not", "Or", "XOR"}

RuleGroupPayloads ==
    {[node_type |-> "ruleGroup", data |-> [logic |-> l, conditions |-> cs]]
        : l \in LogicValues, cs \in ConditionLists(MaxConditions)}
    \cup {[node_type |-> "ruleGroup",
           data |-> [logic |-> "AND", conditions |-> <<PathEquals(AdminPath)>>]]}

\* The operators evaluate_condition knows, an unknown one and a known one
\* in another case.
KnownOperators ==
    {"equals", "startsWith", "starts", "endsWith", "ends", "contains", "notContains",
     "notEquals", "!=", "in", "notIn", "!in", "matches", "inCidr",
     "greaterThan", ">", "lessThan", "<", "greaterOrEqual", ">=", "lessOrEqual", "<=",
     "exists", "notExists"}
Operators == KnownOperators \cup {"like", "Equals"}

NumericOperators ==
    {"greaterThan", ">", "lessThan", "<", "greaterOrEqual", ">=", "lessOrEqual", "<="}

\* The fields conditions name: the path, the client address, the country,
\* a header with a number (or with text), a header with an empty value, a
\* header no request carries, and the custom header field without and with
\* a headerName.
FieldChoices ==
    {[field |-> f] : f \in {"path", "clientIp", "country", "x-n", "x-e", "x-missing", "header"}}
    \cup {[field |-> "header", headerName |-> "x-n"]}

\* The values conditions carry: the empty string, a blank, texts, lists
\* (one with padded members, one with an empty member), numbers, regular
\* expressions (one with an unclosed group), networks and an address
\* without prefix length.
ConditionValues ==
    {<<>>,
     <<" ">>,
     <<"/", "a">>,
     <<"/">>,
     <<"a", ",">>,
     <<" ", "/", "a", " ", ",", "b">>,
     <<"1", "0">>,
     <<"9", ".", "5">>,
     <<"x", "1">>,
     <<"(", "a">>,
     <<"^", "/">>,
     <<"1", "0", ".", "0", ".", "0", ".", "0", "/", "8">>,
     <<"1", "0", ".", "1", ".", "2", ".", "3">>,
     <<"b", ",", "1", "0", ".", "0", ".", "0", ".", "0", "/", "8">>}

ConditionPayloads ==
    {[node_type |-> "condition", data |-> f @@ [operator |-> op, value |-> v]]
        : f \in FieldChoices, op \in Operators, v \in ConditionValues}

\* The requests: one with address, country and a number in x-n, one with
\* neither address nor country and text in x-n; both carry x-e, empty.
ConditionRequests ==
    {ClientRequest(AdminPath,
                   [name \in {"x-n", "x-e"} |-> IF name = "x-n" THEN <<"1", "0">> ELSE <<>>],
                   Some(<<"1", "0", ".", "1", ".", "2", ".", "3">>), Some(UsGeo)),
     ClientRequest(AdminPath,
                   [name \in {"x-n", "x-e"} |-> IF name = "x-n" THEN <<"x", "1">> ELSE <<>>],
                   None, None)}

PositiveHandle(node_type) == IF node_type = "ruleGroup" THEN "match" ELSE "true"
NegativeHandle(node_type) == IF node_type = "ruleGroup" THEN "noMatch" ELSE "false"

InitConditions ==
    \E p \in RuleGroupPayloads \cup ConditionPayloads : \E r \in ConditionRequests :
        New([nodes |-> <<GraphNode("n1", [node_type |-> "request", data |-> UnrelatedObject]),
                         GraphNode("n2", p),
                         GraphNode("n3", [node_type |-> "action", data |-> BlockData])>>,
             edges |-> <<GraphEdge("n1", "n2", NoHandle),
                         GraphEdge("n2", "n3", PositiveHandle(p.node_type)),
                         GraphEdge("n2", DanglingId, NegativeHandle(p.node_type))>>],
            r)

NextConditions ==
    \/ Evaluate
    \/ FollowPathMissing
    \/ FollowPathRequest
    \/ FollowPathRuleGroup
    \/ FollowPathCondition
    \/ FollowPathAction

SpecConditions == InitConditions /\ [][NextConditions]_vars

(***************************************************************************)
(* Graphs of two rateLimit nodes in a row, for the calls made to the rate  *)
(* service: request -> rateLimit -> rateLimit -> block.                    *)
(***************************************************************************)
\* The rateLimit data objects: every keyBy the code knows and one it does
\* not, with and without headerName, every windowUnit and one more, and
\* a limit below 60 and one that is no multiple of 60.
RateLimitData ==
    {[limit |-> l, windowUnit |-> w, keyBy |-> k] :
        l \in {59, 125}, w \in {"second", "minute", "hour", "day"},
        k \in {"ip", "fingerprint", "header", "path", "session"}}
    \cup {[limit |-> 120, windowUnit |-> "minute", keyBy |-> "header", headerName |-> h] :
            h \in {"x-key", "x-none"}}

RateLimitPayloads ==
    {[node_type |-> "rateLimit", data |-> d] : d \in RateLimitData \cup {UnrelatedObject}}

\* A request with a client address, a JA3 fingerprint and the header x-key,
\* one with none of them, and one with a JA4 and a JA3 fingerprint and a
\* forwarded-for list in place of the client address.
RateLimitRequests ==
    {ClientRequest(AdminPath,
                   [name \in {"x-key", "tls-ja3-md5"} |->
                       IF name = "x-key" THEN <<"k">> ELSE <<"j">>],
                   Some(<<"1", "0", ".", "1", ".", "2", ".", "3">>), None),
     ClientRequest(AdminPath, NoHeaders, None, None),
     ClientRequest(PublicPath,
                   [name \in {"fastly-client-ja4", "fastly-client-ja3-md5", "x-forwarded-for"} |->
                       CASE name = "fastly-client-ja4" -> <<"4">>
                         [] name = "fastly-client-ja3-md5" -> <<"3">>
                         [] OTHER -> <<"1", ".", "1", ".", "1", ".", "1", ",", " ", "2", ".", "2", ".", "2", ".", "2">>],
                   None, None)}

InitRateLimit ==
    \E p2 \in RateLimitPayloads : \E p3 \in RateLimitPayloads :
        \E h \in {"ok", "exceeded"} : \E r \in RateLimitRequests :
            New([nodes |-> <<GraphNode("n1", [node_type |-> "request", data |-> UnrelatedObject]),
                             GraphNode("n2", p2),
                             GraphNode("n3", p3),
                             GraphNode("n4", [node_type |-> "action", data |-> BlockData])>>,
                 edges |-> <<GraphEdge("n1", "n2", NoHandle),
                             GraphEdge("n2", "n3", h),
                             GraphEdge("n3", "n4", "exceeded"),
                             GraphEdge("n3", DanglingId, "ok")>>],
                r)

NextRateLimit ==
    \/ Evaluate
    \/ FollowPathMissing
    \/ FollowPathRequest
    \/ FollowPathRateLimit
    \/ FollowPathAction

SpecRateLimit == InitRateLimit /\ [][NextRateLimit]_vars

(***************************************************************************)
(* Graphs of header nodes, for the evaluations of the handler and of a     *)
(* caller that keeps its interpreter.                                      *)
(***************************************************************************)
\* How many evaluate calls a behaviour makes: requests served by the
\* handler, calls made on one interpreter by a caller that keeps it.
MaxEvaluations == 2

HeaderData(operation, value) == [operation |-> operation, name |-> "x-tag", value |-> value]
CountryIs(code) == [field |-> "country", operator |-> "equals", value |-> code]
OriginHost == <<"o", ".", "c">>
OriginData == [name |-> "origin", host |-> OriginHost]

\* The second node: a header node of any operation, a malformed header
\* node, a condition on the client's country, or a second request node.
SecondPayloads ==
    {[node_type |-> "header", data |-> HeaderData(op, <<"1">>)]
        : op \in {"set", "append", "remove", "rename"}}
    \cup {[node_type |-> "header", data |-> UnrelatedObject],
          [node_type |-> "condition", data |-> CountryIs(<<"U", "S">>)],
          [node_type |-> "request", data |-> UnrelatedObject]}

\* The third node: a header node or a terminal.
ThirdPayloads ==
    {[node_type |-> "header", data |-> HeaderData(op, <<"2">>)]
        : op \in {"set", "append", "remove", "rename"}}
    \cup {[node_type |-> "action", data |-> BlockData]}

\* The fourth node: a terminal of each result.
FourthPayloads ==
    {[node_type |-> "backend", data |-> OriginData],
     [node_type |-> "action", data |-> [action |-> "allow"]],
     [node_type |-> "action", data |-> BlockData],
     [node_type |-> "redirect", data |-> [url |-> "/login"]]}

HeaderNodeLists ==
    {<<GraphNode("n1", [node_type |-> "request", data |-> UnrelatedObject]),
       GraphNode("n2", p2), GraphNode("n3", p3), GraphNode("n4", p4)>>
        : p2 \in SecondPayloads, p3 \in ThirdPayloads, p4 \in FourthPayloads}

\* The handle the editor gives the edge that leaves a node of a type.
EditorHandle(node_type) ==
    CASE node_type = "header"    -> "next"
      [] node_type = "condition" -> "true"
      [] OTHER                   -> NoHandle

\* The edge lists of these graphs, as (source, target) pairs: both orders of
\* the two middle nodes, one of them off the path, a dangling end, and the
\* second node with a way of its own to the last.
EdgeShapes ==
    {<< <<"n1", "n2">>, <<"n2", "n3">>, <<"n3", "n4">> >>,
     << <<"n1", "n3">>, <<"n3", "n2">>, <<"n2", "n4">> >>,
     << <<"n1", "n2">>, <<"n2", "n4">> >>,
     << <<"n1", "n2">>, <<"n2", "n3">>, <<"n3", DanglingId>> >>,
     << <<"n1", "n3">>, <<"n3", "n4">>, <<"n2", "n4">> >>,
     << <<"n1", "n3">>, <<"n2", "n4">> >>}

EdgesOfShape(ns, shape) ==
    [i \in 1..Len(shape) |->
        GraphEdge(shape[i][1], shape[i][2], EditorHandle(NodeTypeIn(ns, shape[i][1])))]

\* The requests the handler serves: one whose client address resolves to a
\* country and that carries the header the graphs modify, and one without
\* address and without header.
HandlerRequests ==
    {ClientRequest(AdminPath, [name \in {"x-tag"} |-> <<"0">>],
                   Some(<<"1", ".", "2", ".", "3", ".", "4">>), Some(UsGeo)),
     ClientRequest(AdminPath, NoHeaders, None, None)}

InitHeaders ==
    \E ns \in HeaderNodeLists : \E shape \in EdgeShapes : \E r \in HandlerRequests :
        New([nodes |-> ns, edges |-> EdgesOfShape(ns, shape)], r)

(***************************************************************************)
(* A caller that calls evaluate again on the same interpreter.             *)
(***************************************************************************)
\* What an evaluation that returned leaves behind.
Evaluation ==
    [result |-> result, header_mods |-> header_mods, geo_cache |-> geo_cache,
     req |-> req, visited |-> visited]

\* interpreter.evaluate(&req) once more, for the same request: the
\* interpreter's fields are what the evaluation before left in them.  (The
\* graphs of this caller hold one request node.)
EvaluateAgain ==
    /\ pc = "done"
    /\ evaluations < MaxEvaluations
    /\ evaluations' = evaluations + 1
    /\ prev' = Evaluation
    /\ LET request_nodes == {id \in DOMAIN nodes : nodes[id].node_type = "request"}
       IN  IF request_nodes = {}
           THEN Return(NoMatch)
           ELSE \E id \in request_nodes : Call(id)
    /\ dispatches' = 0
    /\ visited' = <<>>
    /\ last' = NoDispatch
    /\ UNCHANGED <<graph, req, nodes, edges_from, rate_limiter, geo_cache, lookups, header_mods>>
    /\ UNCHANGED <<rate_vars, backend_req, response, load_vars>>

InitReuse ==
    /\ InitHeaders
    /\ Cardinality({i \in 1..Len(graph.nodes) : graph.nodes[i].node_type = "request"}) = 1

NextReuse ==
    \/ Evaluate
    \/ EvaluateAgain
    \/ FollowPathMissing
    \/ FollowPathRequest
    \/ FollowPathCondition
    \/ FollowPathAction
    \/ FollowPathBackend
    \/ FollowPathHeader
    \/ FollowPathRedirect

SpecReuse == InitReuse /\ [][NextReuse]_vars

(***************************************************************************)
(* The request handler (main.rs), from the interpreter's construction on.  *)
(* The headers of a request are a map from lower-case name to the values   *)
(* the header has, in order.  The handler's cache settings are left out:   *)
(* the graphs here configure none.                                         *)
(***************************************************************************)
\* Request::set_header, append_header and remove_header.
set_header(headers, name, value) ==
    [h \in DOMAIN headers \cup {name} |-> IF h = name THEN <<value>> ELSE headers[h]]
append_header(headers, name, value) ==
    [h \in DOMAIN headers \cup {name} |->
        IF h = name
        THEN (IF name \in DOMAIN headers THEN headers[name] ELSE <<>>) \o <<value>>
        ELSE headers[h]]
remove_header(headers, name) == [h \in DOMAIN headers \ {name} |-> headers[h]]

apply_header_mod(headers, header_mod_entry) ==
    CASE header_mod_entry.op = "Set" ->
            set_header(headers, header_mod_entry.name, header_mod_entry.value)
      [] header_mod_entry.op = "Append" ->
            append_header(headers, header_mod_entry.name, header_mod_entry.value)
      [] header_mod_entry.op = "Remove" ->
            remove_header(headers, header_mod_entry.name)

\* The handler's loop as it would be if it went through the list backwards.
RECURSIVE ApplyHeaderModsBackwards(_, _)
ApplyHeaderModsBackwards(headers, mods) ==
    IF mods = <<>> THEN headers
    ELSE ApplyHeaderModsBackwards(apply_header_mod(headers, mods[Len(mods)]),
                                  SubSeq(mods, 1, Len(mods) - 1))

\* for header_mod in &header_mods { ... }: first to last.
RECURSIVE apply_header_mods_loop(_, _)
apply_header_mods_loop(headers, mods) ==
    IF mods = <<>> THEN headers
    ELSE apply_header_mods_loop(apply_header_mod(headers, Head(mods)), Tail(mods))

apply_header_mods(headers, mods) == apply_header_mods_loop(headers, mods)

\* req.clone_without_body(): the request's headers, one value each.
clone_without_body(r) == [h \in DOMAIN r.headers |-> <<r.headers[h]>>]

\* StatusCode::from_u16(code).unwrap_or(default)
status_or(code, default) == IF code \in 100..999 THEN code ELSE default

\* The response as it would be without the action-tracing header.
RespondedUntraced(status, action, more_headers) ==
    /\ response' = [status |-> status, headers |-> more_headers]
    /\ pc' = "responded"
    /\ UNCHANGED <<graph, req, nodes, edges_from, rate_limiter, geo_cache, lookups, header_mods,
                   node_id, depth, result, dispatches, visited, last>>
    /\ UNCHANGED <<rate_vars, evaluations, prev, load_vars>>

\* The response the handler returns, with its X-CC-Action header.
Responded(status, action, more_headers) ==
    /\ response' = [status |-> status,
                    headers |-> ("x-cc-action" :> action) @@ more_headers]
    /\ pc' = "responded"
    /\ UNCHANGED <<graph, req, nodes, edges_from, rate_limiter, geo_cache, lookups, header_mods,
                   node_id, depth, result, dispatches, visited, last>>
    /\ UNCHANGED <<rate_vars, evaluations, prev, load_vars>>

NoMoreHeaders == [h \in {} |-> <<>>]

\* StatusCode::SERVICE_UNAVAILABLE
ServiceUnavailable == 503

\* The Block arm.
MainBlock ==
    /\ pc = "done"
    /\ result.kind = "Block"
    /\ Responded(status_or(result.status_code, 403), <<"blocked">>, NoMoreHeaders)
    /\ UNCHANGED backend_req

\* The forward to the default backend as it would be if it sent the
\* request on with the collected header modifications.
ForwardWithHeaderMods(reason) ==
    /\ Responded(ServiceUnavailable, reason, NoMoreHeaders)
    /\ backend_req' = [sent |-> TRUE, sends |-> 1,
                       headers |-> apply_header_mods(clone_without_body(req), header_mods)]

\* forward_to_default_backend_with_reason: no backend is configured, the
\* request goes nowhere and the response is an error of the service.
forward_to_default_backend_with_reason(reason) ==
    /\ Responded(ServiceUnavailable, reason, NoMoreHeaders)
    /\ UNCHANGED backend_req

\* add_edge_auth: the Edge-Auth header is set when the backend has a
\* secret that is not empty; its value is a signature under that secret.
add_edge_auth(headers, backend) ==
    IF "edgeAuthSecret" \in DOMAIN backend /\ backend.edgeAuthSecret # <<>>
    THEN set_header(headers, "edge-auth", <<"signed", backend.edgeAuthSecret>>)
    ELSE headers

\* str::trim_start_matches(pattern) and str::trim_end_matches(pattern):
\* the pattern is removed as often as the string starts or ends with it.
RECURSIVE trim_start_matches(_, _)
trim_start_matches(s, pattern) ==
    IF pattern # <<>> /\ starts_with(s, pattern)
    THEN trim_start_matches(SubSeq(s, Len(pattern) + 1, Len(s)), pattern)
    ELSE s
RECURSIVE trim_end_matches(_, _)
trim_end_matches(s, pattern) ==
    IF pattern # <<>> /\ ends_with(s, pattern)
    THEN trim_end_matches(SubSeq(s, 1, Len(s) - Len(pattern)), pattern)
    ELSE s

HttpPrefix == <<"h", "t", "t", "p", ":", "/", "/">>
HttpsPrefix == <<"h", "t", "t", "p", "s", ":", "/", "/">>

\* send_to_backend: the port, the cleaned host, the Host header, the
\* target of the backend and the SNI host name given to the builder (none
\* is given without TLS or without a configured sniHostname).
DefaultPort == 443
backend_port(data) == FieldOr(data, "port", DefaultPort)
use_tls(data) == FieldOr(data, "useTLS", TRUE)
clean_host(data) ==
    trim_end_matches(
        trim_start_matches(trim_start_matches(data.host, HttpsPrefix), HttpPrefix),
        <<"/">>)
host_header(data) == FieldOr(data, "overrideHost", clean_host(data))
backend_target(data) == [host |-> clean_host(data), port |-> backend_port(data)]
sni_hostname(data) ==
    IF use_tls(data) /\ "sniHostname" \in DOMAIN data /\ data.sniHostname # <<>>
    THEN Some(data.sniHostname)
    ELSE None

\* The backend send_to_backend builds for the data of a backend node.
BackendBuilder(data) ==
    [target |-> backend_target(data), override_host |-> host_header(data),
     ssl |-> use_tls(data), sni_hostname |-> sni_hostname(data)]

\* The headers of the request as they would be if the header
\* modifications were applied last, after the Host header was set.
HeaderModsAfterHost(r, backend, mods) ==
    apply_header_mods(
        set_header(add_edge_auth(clone_without_body(r), backend),
                   "host", host_header(backend)),
        mods)

\* The headers of the request the Route arm sends: add_edge_auth on the
\* copy of the request, then the header modifications in order, then the
\* Host header set by send_to_backend.
route_request_headers(r, backend, mods) ==
    set_header(apply_header_mods(add_edge_auth(clone_without_body(r), backend), mods),
               "host", host_header(backend))

\* send_to_backend(backend_req, &backend_data): the backend is built and
\* the request sent to it, once; nothing is sent when the backend cannot
\* be built.
SendOutcomes == {"ok", "no_backend", "send_failed"}
sends_to_backend(outcome) == IF outcome = "no_backend" THEN 0 ELSE 1

\* The Route arm: the edge authentication and the header modifications go
\* onto a copy of the request (headers), send_to_backend sets its Host
\* header (sent_headers) and sends it; a backend error falls back to
\* forward_to_default_backend_with_reason.
MainRoute ==
    /\ pc = "done"
    /\ result.kind = "Route"
    /\ \E outcome \in SendOutcomes :
          /\ backend_req' =
                [sent |-> TRUE, sends |-> sends_to_backend(outcome), ok |-> outcome = "ok",
                 headers |-> apply_header_mods(
                                 add_edge_auth(clone_without_body(req), result.backend),
                                 header_mods),
                 sent_headers |-> route_request_headers(req, result.backend, header_mods),
                 backend |-> BackendBuilder(result.backend)]
          /\ IF outcome = "ok"
             THEN Responded(200, <<"routed:", result.backend.name>>, NoMoreHeaders)
             ELSE Responded(ServiceUnavailable,
                            <<"failopen:backend_error:", result.backend.name>>,
                            NoMoreHeaders)

\* The Redirect arm (the requests here carry no query string).
MainRedirect ==
    /\ pc = "done"
    /\ result.kind = "Redirect"
    /\ Responded(status_or(result.status_code, 302), <<"redirect:", result.status_code>>,
                 "location" :> result.url)
    /\ UNCHANGED backend_req

\* The Allow and NoMatch arms.
MainDefaultBackend ==
    /\ pc = "done"
    /\ result.kind \in {"Allow", "NoMatch"}
    /\ forward_to_default_backend_with_reason(
           IF result.kind = "Allow" THEN <<"allowed">> ELSE <<"nomatch">>)

\* The handler as it would be if it kept one interpreter for all requests.
KeepInterpreter(g) ==
    UNCHANGED <<nodes, edges_from, rate_limiter, geo_cache, lookups, header_mods>>

\* GraphInterpreter::new(&graph) for the next request.
NewInterpreter(g) ==
    /\ nodes' = NodesIndex(g)
    /\ edges_from' = EdgesFromIndex(g)
    /\ rate_limiter' = HasRateLimit(g)
    /\ geo_cache' = None
    /\ lookups' = [geo |-> 0, device |-> 0]
    /\ header_mods' = <<>>

\* The handler runs for the next request: the same graph is loaded from the
\* store and a new interpreter is made for it.
MainFor(r) ==
    /\ pc = "responded"
    /\ evaluations' = evaluations + 1
    /\ prev' = Evaluation
    /\ req' = r
    /\ NewInterpreter(graph)
    /\ pc' = "idle"
    /\ node_id' = ""
    /\ depth' = 0
    /\ result' = NoResult
    /\ dispatches' = 0
    /\ visited' = <<>>
    /\ last' = NoDispatch
    /\ backend_req' = NoRequest
    /\ response' = NoResponse
    /\ UNCHANGED <<graph, load_vars>>

MainNew ==
    /\ evaluations < MaxEvaluations
    /\ \E r \in HandlerRequests : MainFor(r)
    /\ UNCHANGED rate_vars

NextHandler ==
    \/ Evaluate
    \/ FollowPathMissing
    \/ FollowPathRequest
    \/ FollowPathCondition
    \/ FollowPathAction
    \/ FollowPathBackend
    \/ FollowPathHeader
    \/ FollowPathRedirect
    \/ MainBlock
    \/ MainRoute
    \/ MainRedirect
    \/ MainDefaultBackend
    \/ MainNew

SpecHandler == InitHeaders /\ [][NextHandler]_vars

(***************************************************************************)
(* The request handler from its start: the graph is loaded from the Config *)
(* Store, whose value under the service id is any of the values below.     *)
(***************************************************************************)
SecretOriginData ==
    [name |-> "origin", host |-> OriginHost, edgeAuthSecret |-> <<"k">>]

\* The node a stored graph ends in.
LastPayloads ==
    {[node_type |-> "backend", data |-> OriginData],
     [node_type |-> "backend", data |-> SecretOriginData],
     [node_type |-> "action", data |-> [action |-> "allow"]],
     [node_type |-> "action", data |-> BlockData],
     [node_type |-> "redirect", data |-> [url |-> "/login"]],
     [node_type |-> "redirect", data |-> [url |-> "/login", statusCode |-> 1000]]}

\* A graph in which two nodes carry the same id: the edge of the request
\* node leads to that id.
RepeatedIdGraph ==
    [nodes |-> <<GraphNode("n1", [node_type |-> "request", data |-> UnrelatedObject]),
                 GraphNode("n2", [node_type |-> "action", data |-> BlockData]),
                 GraphNode("n2", [node_type |-> "action", data |-> [action |-> "allow"]])>>,
     edges |-> <<GraphEdge("n1", "n2", NoHandle)>>]

\* The graphs in the store: a request node, a header node that sets x-tag
\* and a last node; the graph without nodes; and the graph with a repeated
\* id.
StoredGraphs ==
    {[nodes |-> <<GraphNode("n1", [node_type |-> "request", data |-> UnrelatedObject]),
                  GraphNode("n2", [node_type |-> "header",
                                   data |-> HeaderData("set", <<"1">>)]),
                  GraphNode("n3", p)>>,
      edges |-> <<GraphEdge("n1", "n2", NoHandle), GraphEdge("n2", "n3", "next")>>]
        : p \in LastPayloads}
    \cup {NoGraph, RepeatedIdGraph}

JsonFields1(k1, v1) == JsonObject([k \in {k1} |-> v1])
JsonFields2(k1, v1, k2, v2) == JsonObject([k \in {k1, k2} |-> IF k = k1 THEN v1 ELSE v2])
NoItems == JsonArray(<<>>)

\* JSON documents that are no graph: without one of the keys or both, not
\* an object, and with both keys where one does not hold a list of nodes
\* or of edges.
DocumentsWithoutKeys ==
    {JsonObject([k \in {"v", "r", "d"} |->
        CASE k = "v" -> JsonString("1.0")
          [] k = "r" -> JsonArray(<<JsonString("rule1")>>)
          [] k = "d" -> JsonObject([f \in {} |-> JsonNull])]),
     JsonFields1("nodes", NoItems),
     JsonFields1("edges", NoItems),
     NoItems,
     JsonArray(<<NoItems, NoItems>>),
     JsonNumber(1)}

DocumentsWithKeys ==
    {JsonFields2("nodes", JsonString("x"), "edges", NoItems),
     JsonFields2("nodes", NoItems, "edges", JsonNull),
     JsonFields2("nodes", JsonObject([f \in {} |-> JsonNull]), "edges", NoItems),
     JsonFields2("nodes", JsonArray(<<JsonFields1("id", JsonString("n1"))>>),
                 "edges", NoItems),
     JsonFields2("nodes", NoItems,
                 "edges", JsonArray(<<JsonFields2("id", JsonString("e"),
                                                  "source", JsonString("n1"))>>))}

\* Nodes and edges with every field of their types.
RoundTripNodes ==
    {[id |-> "n1", node_type |-> "request", position |-> [x |-> 0, y |-> 0],
      data |-> UnrelatedObject],
     [id |-> "n2", node_type |-> "action", position |-> [x |-> 200, y |-> -50],
      data |-> BlockData],
     [id |-> "n3", node_type |-> "action", position |-> [x |-> 200, y |-> 50],
      data |-> [action |-> "allow"]]}
RoundTripEdges ==
    {[id |-> "e1", source |-> "n1", target |-> "n2", source_handle |-> NoHandle,
      target_handle |-> NoHandle, edge_type |-> NoHandle],
     [id |-> "e2", source |-> "n1", target |-> "n3", source_handle |-> "next",
      target_handle |-> "in", edge_type |-> "smoothstep"]}

\* The sequences without repetition over a set of at most three members.
Arrangements(S) ==
    {<<>>} \cup {<<a>> : a \in S}
    \cup {arr \in {<<a, b>> : a \in S, b \in S} : arr[1] # arr[2]}
    \cup {arr \in {<<a, b, c>> : a \in S, b \in S, c \in S} :
             Cardinality({arr[1], arr[2], arr[3]}) = 3 /\ Cardinality(S) = 3}

\* Graphs of these nodes and edges in every order: the nodes all three or
\* the first two.
RoundTripGraphs ==
    {[nodes |-> ns, edges |-> es] :
        ns \in {a \in Arrangements(RoundTripNodes) : Len(a) >= 2},
        es \in {a \in Arrangements(RoundTripEdges) : Len(a) >= 1}}

\* The texts a packed string may hold.
Texts ==
    {JsonText(graph_to_value(g)) : g \in StoredGraphs}
    \cup {JsonText(graph_payload_to_value(g)) : g \in RoundTripGraphs}
    \cup {JsonText(d) : d \in DocumentsWithoutKeys \cup DocumentsWithKeys}
    \cup {NotJsonText, EmptyText}

\* The packed strings: the two encodings of each text, gzip under "raw:",
\* plain JSON without "raw:", bytes that are neither, no base64.
PackedStrings ==
    {PackRaw(t) : t \in Texts} \cup {PackGzip(t) : t \in Texts}
    \cup {Packed("raw:", Base64Of(GzipBytes(Utf8Bytes(JsonText(graph_to_value(NoGraph)))))),
          Packed("", Base64Of(Utf8Bytes(JsonText(graph_to_value(NoGraph))))),
          Packed("raw:", Base64Of(OtherBytes)),
          Packed("", Base64Of(OtherBytes)),
          Packed("", Base64Of(GzipBytes(OtherBytes))),
          Packed("raw:", NotBase64),
          Packed("", NotBase64)}

\* The values under the service id: none, payloads with each packed string
\* and with an empty one, a payload given by position, and values that are
\* no payload.
StoredValues ==
    {None}
    \cup {Some(VcePayload(packed)) : packed \in PackedStrings \cup {EmptyString}}
    \cup {Some(JsonText(JsonArray(<<JsonString("1"), JsonString("2"),
                                   JsonString(PackRaw(JsonText(graph_to_value(NoGraph))))>>))),
          Some(NotJsonText),
          Some(EmptyText),
          Some(JsonText(JsonFields2("version", JsonString("1"),
                                    "deployedAt", JsonString("2")))),
          Some(JsonText(JsonObject([k \in {"version", "deployedAt", "rules_packed"} |->
                                       IF k = "rules_packed" THEN JsonNumber(1)
                                       ELSE JsonString("1")])))}

\* The paths of the version and health endpoint.
VersionPath == <<"/", "_", "v", "e", "r", "s", "i", "o", "n">>
HealthPath == <<"/", "_", "h", "e", "a", "l", "t", "h">>
SystemPaths == {VersionPath, HealthPath}

\* The requests of the handler, and one for the health endpoint.
MainRequests == HandlerRequests \cup {ClientRequest(HealthPath, NoHeaders, None, None)}

InitMain ==
    \E stored \in StoredValues : \E r \in MainRequests :
        /\ BeforeEvaluate(NoGraph, r, FALSE)
        /\ pc = "start"
        /\ config_store = stored
        /\ load = NotLoaded

\* load_graph_from_store(&store, &service_id) and, for a graph, the
\* interpreter made for it.
MainLoad ==
    /\ pc = "start"
    /\ req.path \notin SystemPaths
    /\ LET loaded == load_graph_from_store(config_store)
       IN  /\ load' = loaded
           /\ IF loaded.ok
              THEN /\ graph' = loaded.v
                   /\ NewInterpreter(loaded.v)
                   /\ pc' = "idle"
              ELSE /\ pc' = "load_failed"
                   /\ UNCHANGED <<graph, nodes, edges_from, rate_limiter, geo_cache, lookups,
                                  header_mods>>
    /\ UNCHANGED <<req, node_id, depth, result, dispatches, visited, last>>
    /\ UNCHANGED <<rate_vars, evaluations, prev, backend_req, response, config_store>>

\* The version and health endpoint: the graph is loaded for its node and
\* edge counts only, the request is not evaluated.
MainVersion ==
    /\ pc = "start"
    /\ req.path \in SystemPaths
    /\ load' = load_graph_from_store(config_store)
    /\ response' = [status |-> 200,
                    headers |-> [h \in {"access-control-allow-origin"} |-> <<"*">>]]
    /\ pc' = "responded"
    /\ UNCHANGED <<graph, req, nodes, edges_from, rate_limiter, geo_cache, lookups, header_mods,
                   node_id, depth, result, dispatches, visited, last>>
    /\ UNCHANGED <<rate_vars, evaluations, prev, backend_req, config_store>>

\* The handler's answer when the graph could not be loaded.
MainLoadError ==
    /\ pc = "load_failed"
    /\ forward_to_default_backend_with_reason(
           <<"failopen:graph_load_error">>)

NextMain ==
    \/ MainVersion
    \/ MainLoad
    \/ MainLoadError
    \/ Evaluate
    \/ FollowPathRequest
    \/ FollowPathHeader
    \/ FollowPathAction
    \/ FollowPathBackend
    \/ FollowPathRedirect
    \/ MainBlock
    \/ MainRoute
    \/ MainRedirect
    \/ MainDefaultBackend

SpecMain == InitMain /\ [][NextMain]_vars

(***************************************************************************)
(* The handler for graphs that route: a request node, a header node and a  *)
(* backend node whose data is any of the data below.                       *)
(***************************************************************************)
\* Host names as the editor may store them: bare, with one scheme prefix or
\* several, with trailing slashes.
BareHost == <<"o">>
BackendHosts ==
    {pre \o BareHost \o post
        : pre \in {<<>>, HttpPrefix, HttpsPrefix, HttpsPrefix \o HttpsPrefix,
                   HttpPrefix \o HttpsPrefix, HttpsPrefix \o HttpPrefix},
          post \in {<<>>, <<"/">>, <<"/", "/">>}}

\* A record with one optional field more, or without it.
OptionalField(f, values) == {<<>>} \cup {f :> v : v \in values}
WithOptional(data, field) == IF field = <<>> THEN data ELSE field @@ data

BackendDatas ==
    {WithOptional(WithOptional(WithOptional(WithOptional(WithOptional(
         [name |-> "origin", host |-> h], port), override), sni), tls), secret)
        : h \in BackendHosts,
          port \in OptionalField("port", {8080}),
          override \in OptionalField("overrideHost", {<<"v">>}),
          sni \in OptionalField("sniHostname", {<<"s">>, <<>>}),
          tls \in OptionalField("useTLS", {FALSE}),
          secret \in OptionalField("edgeAuthSecret", {<<"k">>, <<>>})}

\* The header nodes before the backend: one that changes a header the
\* handler sets itself, or a header of the client.
BackendHeaderDatas ==
    {[operation |-> op, name |-> name, value |-> <<"m", name>>]
        : op \in {"set", "remove"}, name \in {"edge-auth", "host"}}
    \cup {[operation |-> "append", name |-> "x-tag", value |-> <<"m">>]}

BackendGraphs ==
    {[nodes |-> <<GraphNode("n1", [node_type |-> "request", data |-> UnrelatedObject]),
                  GraphNode("n2", [node_type |-> "header", data |-> hd1]),
                  GraphNode("n3", [node_type |-> "header", data |-> hd2]),
                  GraphNode("n4", [node_type |-> "backend", data |-> bd])>>,
      edges |-> <<GraphEdge("n1", "n2", NoHandle), GraphEdge("n2", "n3", "next"),
                  GraphEdge("n3", "n4", "next")>>]
        : hd1 \in BackendHeaderDatas, hd2 \in BackendHeaderDatas, bd \in BackendDatas}

\* The client's request: it names a host of its own and carries an
\* Edge-Auth header of its own making.
BackendRequests ==
    {ClientRequest(AdminPath,
                   [name \in {"host", "edge-auth"} |-> IF name = "host" THEN <<"w">> ELSE <<"f">>],
                   None, None)}

InitBackend ==
    \E g \in BackendGraphs : \E r \in BackendRequests : New(g, r)

NextBackend ==
    \/ Evaluate
    \/ FollowPathRequest
    \/ FollowPathHeader
    \/ FollowPathBackend
    \/ MainRoute

SpecBackend == InitBackend /\ [][NextBackend]_vars

(***************************************************************************)
(* Graphs whose conditions read geo and device fields: a ruleGroup of two  *)
(* conditions, then a condition node, then a block.                        *)
(***************************************************************************)
LookupFields == GeoFields \cup DeviceFields \cup {"path"}
FieldExists(field) == [field |-> field, operator |-> "exists", value |-> <<>>]
WithId(condition) == [id |-> "c"] @@ condition

LookupGraphs ==
    {[nodes |-> <<GraphNode("n1", [node_type |-> "request", data |-> UnrelatedObject]),
                  GraphNode("n2", [node_type |-> "ruleGroup",
                                   data |-> [logic |-> logic,
                                             conditions |-> <<WithId(FieldExists(f1)),
                                                              WithId(FieldExists(f2))>>]]),
                  GraphNode("n3", [node_type |-> "condition", data |-> FieldExists(f3)]),
                  GraphNode("n4", [node_type |-> "action", data |-> BlockData])>>,
      edges |-> <<GraphEdge("n1", "n2", NoHandle),
                  GraphEdge("n2", "n3", "match"),
                  GraphEdge("n2", "n3", "noMatch"),
                  GraphEdge("n3", "n4", "true"),
                  GraphEdge("n3", "n4", "false")>>]
        : logic \in {"AND", "OR"}, f1 \in LookupFields, f2 \in LookupFields,
          f3 \in LookupFields}

\* What device_lookup answers: nothing, a browser, a bot without name.
Devices ==
    {None,
     Some([is_bot |-> Some(<<"f", "a", "l", "s", "e">>), user_agent_name |-> Some(<<"F", "x">>)]),
     Some([is_bot |-> Some(<<"t", "r", "u", "e">>), user_agent_name |-> None])}

\* The requests: with a client address the geo service knows, with one it
\* knows nothing of, and without address.
LookupRequests ==
    {[device |-> d] @@ ClientRequest(AdminPath, NoHeaders, ip_geo[1], ip_geo[2])
        : d \in Devices,
          ip_geo \in {<<Some(<<"1", ".", "2", ".", "3", ".", "4">>), Some(UsGeo)>>,
                      <<Some(<<"1", ".", "2", ".", "3", ".", "4">>), None>>,
                      <<None, None>>}}

InitLookups == \E g \in LookupGraphs : \E r \in LookupRequests : New(g, r)

NextLookups ==
    \/ Evaluate
    \/ FollowPathRequest
    \/ FollowPathRuleGroup
    \/ FollowPathCondition
    \/ FollowPathAction

SpecLookups == InitLookups /\ [][NextLookups]_vars

(***************************************************************************)
(* Graphs that end in an action node of any action and configuration:      *)
(* request -> action.                                                      *)
(***************************************************************************)
\* The action strings: the three the interpreter knows, the two others the
\* data type documents, a known one in another case, and the empty one.
ActionStrings == {"block", "allow", "redirect", "challenge", "log", "Allow", ""}

ActionDatas ==
    {WithOptional(WithOptional(WithOptional(WithOptional(
         [action |-> a], status), message), url), preserve)
        : a \in ActionStrings,
          status \in OptionalField("statusCode", {451}),
          message \in OptionalField("message", {"No"}),
          url \in OptionalField("url", {"/x"}),
          preserve \in OptionalField("preserveQuery", {FALSE})}
    \cup {UnrelatedObject}

InitActions ==
    \E data \in ActionDatas : \E r \in Requests :
        New([nodes |-> <<GraphNode("n1", [node_type |-> "request", data |-> UnrelatedObject]),
                         GraphNode("n2", [node_type |-> "action", data |-> data])>>,
             edges |-> <<GraphEdge("n1", "n2", NoHandle)>>],
            r)

NextActions ==
    \/ Evaluate
    \/ FollowPathRequest
    \/ FollowPathAction

SpecActions == InitActions /\ [][NextActions]_vars

(***************************************************************************)
(* Graphs of one condition on a field or on the custom header field, for   *)
(* requests that carry headers named like request attributes.              *)
(***************************************************************************)
\* The names of conditions: request attributes, a header the requests
\* carry, one they do not, and the name of the custom header field.
ResolverNames == {"path", "method", "country", "x-n", "x-missing", "header"}

HeaderFieldChoices ==
    {[field |-> name] : name \in ResolverNames}
    \cup {[field |-> "header", headerName |-> name] : name \in ResolverNames}

\* The values compared: the path, the method and the country of the
\* requests, and the values of their headers.
ResolverValues ==
    {AdminPath, <<"P", "O", "S", "T">>, <<"U", "S">>, <<"h", "p">>, <<"h", "m">>,
     <<"h", "c">>, <<"h", "h">>, <<"1">>}

HeaderConditions ==
    {f @@ [operator |-> op, value |-> v]
        : f \in HeaderFieldChoices, op \in {"equals", "notExists"}, v \in ResolverValues}

\* Headers named path, method, country and header, whose values are not
\* those of the request's attributes.
AttributeNamedHeaders ==
    [name \in {"path", "method", "country", "header", "x-n"} |->
        CASE name = "path"    -> <<"h", "p">>
          [] name = "method"  -> <<"h", "m">>
          [] name = "country" -> <<"h", "c">>
          [] name = "header"  -> <<"h", "h">>
          [] OTHER            -> <<"1">>]

\* The requests: a POST from an address in a country, and one from no
\* known address; both carry the headers above.
ResolverRequests ==
    {[method |-> <<"P", "O", "S", "T">>]
        @@ ClientRequest(AdminPath, AttributeNamedHeaders,
                         Some(<<"1", ".", "2", ".", "3", ".", "4">>), Some(UsGeo)),
     [method |-> <<"P", "O", "S", "T">>]
        @@ ClientRequest(AdminPath, AttributeNamedHeaders, None, None)}

InitResolver ==
    \E c \in HeaderConditions : \E r \in ResolverRequests :
        New([nodes |-> <<GraphNode("n1", [node_type |-> "request", data |-> UnrelatedObject]),
                         GraphNode("n2", [node_type |-> "condition", data |-> c]),
                         GraphNode("n3", [node_type |-> "action", data |-> BlockData])>>,
             edges |-> <<GraphEdge("n1", "n2", NoHandle),
                         GraphEdge("n2", "n3", "true")>>],
            r)

NextResolver ==
    \/ Evaluate
    \/ FollowPathRequest
    \/ FollowPathCondition
    \/ FollowPathAction

SpecResolver == InitResolver /\ [][NextResolver]_vars

(***************************************************************************)
(* A series of requests through one rateLimit node, against a rate store   *)
(* that serves this traffic only:                                          *)
(* request -> rateLimit -ok-> allow, -exceeded-> block.                    *)
(***************************************************************************)
MaxRequests == 3

\* The rateLimit nodes: 2 per second, 1 per minute, and 60 per hour.
TrafficRateLimits ==
    {[limit |-> 2, windowUnit |-> "second", keyBy |-> "path"],
     [limit |-> 1, windowUnit |-> "minute", keyBy |-> "path"],
     [limit |-> 60, windowUnit |-> "hour", keyBy |-> "path"]}

\* Requests of two keys, and the seconds between a response and the next
\* request.
TrafficRequests ==
    {ClientRequest(AdminPath, NoHeaders, None, None),
     ClientRequest(PublicPath, NoHeaders, None, None)}
Delays == {0, 1, 60, 120, 600}

TooManyData == [action |-> "block", statusCode |-> 429, message |-> "Slow down"]

TrafficGraph(d) ==
    [nodes |-> <<GraphNode("n1", [node_type |-> "request", data |-> UnrelatedObject]),
                 GraphNode("n2", [node_type |-> "rateLimit", data |-> d]),
                 GraphNode("n3", [node_type |-> "action", data |-> [action |-> "allow"]]),
                 GraphNode("n4", [node_type |-> "action", data |-> TooManyData])>>,
     edges |-> <<GraphEdge("n1", "n2", NoHandle),
                 GraphEdge("n2", "n3", "ok"),
                 GraphEdge("n2", "n4", "exceeded")>>]

InitTraffic ==
    \E d \in TrafficRateLimits : \E r \in TrafficRequests :
        NewWith(TrafficGraph(d), r, TRUE)

\* The handler runs for the next request, some seconds later.
MainLater ==
    /\ evaluations < MaxRequests
    /\ \E r \in TrafficRequests : MainFor(r)
    /\ \E delay \in Delays : now' = now + delay
    /\ UNCHANGED <<check_calls, lookup_calls, rate_answer, check_rate_call, counter,
                   hits, penalty_box, rate_log, tracked, instances>>

NextTraffic ==
    \/ Evaluate
    \/ FollowPathRequest
    \/ FollowPathRateLimit
    \/ FollowPathAction
    \/ MainBlock
    \/ MainDefaultBackend
    \/ MainLater

SpecTraffic == InitTraffic /\ [][NextTraffic]_vars

(***************************************************************************)
(* Concurrent requests: each is served by an interpreter of its own, and   *)
(* their rateLimit arms run against the shared store one platform call at  *)
(* a time, in any interleaving.                                            *)
(***************************************************************************)
MaxInstances == 3

\* An interpreter that has reached the graph's rateLimit node for
\* request r and is about to make the arm's first platform call.
Arrived(r) ==
    [pc |-> "lookup_before", req |-> r, count_before |-> 0, count_after |-> 0,
     answer |-> "none", counted |-> FALSE, handle |-> ""]

\* The check_rate call of instance i.
CallOf(i) ==
    [entry |-> get_rate_limit_key(nodes["n2"].data, instances[i].req),
     delta |-> CheckRateDelta, window |-> rate_window(nodes["n2"].data),
     limit |-> rps_limit(nodes["n2"].data), ttl |-> penalty_ttl(nodes["n2"].data)]

At(i, label) == i \in 1..Len(instances) /\ instances[i].pc = label

\* rate_counter_debug.lookup_count(..).ok().unwrap_or(0)
lookup_or_zero(entry, ok) == IF ok THEN Count(lookup_count(counter, entry), entry) ELSE 0

\* The handle the arm follows once its check has returned.
HandleOf(call, answer, count_before, count_after) ==
    RateLimitHandle(is_exceeded(answer, count_before, count_after, call.limit))

\* A request arrives and its interpreter reaches the rateLimit node. The
\* concurrent requests have one key.
ConcurrentRequests == {ClientRequest(AdminPath, NoHeaders, None, None)}
Arrive ==
    /\ Len(instances) < MaxInstances
    /\ \E r \in ConcurrentRequests : instances' = Append(instances, Arrived(r))
    /\ UNCHANGED <<graph, req, nodes, edges_from, rate_limiter, geo_cache, lookups, header_mods, pc,
                   node_id, depth, result, dispatches, visited, last>>
    /\ UNCHANGED <<check_calls, lookup_calls, rate_answer, check_rate_call, counter,
                   now, hits, penalty_box, rate_log, tracked, caller_vars>>

\* The debug lookup before the check.
LookupBefore ==
    /\ \E i \in 1..Len(instances) : \E ok \in BOOLEAN :
          /\ At(i, "lookup_before")
          /\ instances' = [instances EXCEPT
                ![i].count_before = lookup_or_zero(CallOf(i).entry, ok),
                ![i].pc = "check_rate"]
    /\ lookup_calls' = lookup_calls + 1
    /\ UNCHANGED <<graph, req, nodes, edges_from, rate_limiter, geo_cache, lookups, header_mods, pc,
                   node_id, depth, result, dispatches, visited, last>>
    /\ UNCHANGED <<check_calls, rate_answer, check_rate_call, counter,
                   now, hits, penalty_box, rate_log, tracked, caller_vars>>

\* erl.check_rate: the store counts and judges the call in one step; a
\* failed check follows its handle without a second lookup.
CheckRate ==
    /\ \E i \in 1..Len(instances) :
          LET call == CallOf(i)
          IN  \E answer \in check_rate_answers(call) :
                \E was_counted \in (IF answer = "error" THEN BOOLEAN ELSE {TRUE}) :
                  /\ At(i, "check_rate")
                  /\ instances' = [instances EXCEPT
                        ![i].answer = answer,
                        ![i].counted = was_counted,
                        ![i].handle = IF answer = "error"
                                      THEN HandleOf(call, answer, instances[i].count_before, 0)
                                      ELSE "",
                        ![i].pc = IF answer = "error" THEN "done" ELSE "lookup_after"]
                  /\ counter' = check_rate(counter, call, answer, was_counted)
                  /\ hits' = IF was_counted
                             THEN record_hits(hits, call.entry, call.delta, now)
                             ELSE hits
                  /\ penalty_box' =
                        IF /\ answer # "error"
                           /\ ~in_penalty_box(penalty_box, call.entry, now)
                           /\ over_limit(call)
                        THEN [e \in DOMAIN penalty_box \cup {call.entry} |->
                                 IF e = call.entry THEN now + call.ttl ELSE penalty_box[e]]
                        ELSE penalty_box
                  /\ rate_answer' = answer
                  /\ check_rate_call' = call
    /\ check_calls' = check_calls + 1
    /\ UNCHANGED <<graph, req, nodes, edges_from, rate_limiter, geo_cache, lookups, header_mods, pc,
                   node_id, depth, result, dispatches, visited, last>>
    /\ UNCHANGED <<lookup_calls, now, rate_log, tracked, caller_vars>>

\* The debug lookup after an answered check, and the handle followed.
LookupAfter ==
    /\ \E i \in 1..Len(instances) : \E ok \in BOOLEAN :
          /\ At(i, "lookup_after")
          /\ instances' = [instances EXCEPT
                ![i].count_after = lookup_or_zero(CallOf(i).entry, ok),
                ![i].handle = HandleOf(CallOf(i), instances[i].answer,
                                       instances[i].count_before,
                                       lookup_or_zero(CallOf(i).entry, ok)),
                ![i].pc = "done"]
    /\ lookup_calls' = lookup_calls + 1
    /\ UNCHANGED <<graph, req, nodes, edges_from, rate_limiter, geo_cache, lookups, header_mods, pc,
                   node_id, depth, result, dispatches, visited, last>>
    /\ UNCHANGED <<check_calls, rate_answer, check_rate_call, counter,
                   now, hits, penalty_box, rate_log, tracked, caller_vars>>

NextConcurrent ==
    \/ Arrive
    \/ LookupBefore
    \/ CheckRate
    \/ LookupAfter

\* The graph's rateLimit node allows 2 per second.
InitConcurrent ==
    NewWith(TrafficGraph([limit |-> 2, windowUnit |-> "second", keyBy |-> "path"]),
            ClientRequest(AdminPath, NoHeaders, None, None), TRUE)

SpecConcurrent == InitConcurrent /\ [][NextConcurrent]_vars

(***************************************************************************)
(* Properties.                                                             *)
(***************************************************************************)
\* The node the last dispatch was about, as the graph declares it.
LastNode == nodes[last.node]
Dispatched == last.node # ""
LastMalformed == Dispatched /\ ~ParsesAs(last.node_type, LastNode.data)

\* The positions, in the graph's edge list, of the edges that leave the last
\* dispatched node and carry the handle that dispatch asked for (any edge
\* when it asked for none).
Eligible ==
    {i \in 1..Len(graph.edges) :
        /\ graph.edges[i].source = last.node
        /\ last.handle # NoHandle => graph.edges[i].source_handle = last.handle}
FirstEligible == CHOOSE i \in Eligible : \A j \in Eligible : i <= j

\* The positions of all edges that leave the last dispatched node.
Outgoing == {i \in 1..Len(graph.edges) : graph.edges[i].source = last.node}

TerminalTypes == {"action", "redirect", "backend"}

\* C1: evaluate terminates for every graph, cyclic ones included, after at
\* most as many node dispatches as the longest path of the graph has nodes
\* (no path visits more nodes than the graph holds).
C1_TerminatesWithinLongestPath ==
    /\ pc # "overflow"
    /\ dispatches <= Len(graph.nodes)

\* C2: every evaluation ends in one of Route, Block, Redirect, Allow and
\* NoMatch; the interpreter never stops without returning one of them.
C2_AlwaysOneOfFiveResults ==
    /\ pc \in {"idle", "follow_path", "done"}
    /\ pc = "done" => result.kind \in GraphResultKinds

\* C3: follow_outgoing continues at the target of the first edge, in the
\* order of the graph's edge list, among the edges that leave the node and
\* carry the given handle (all edges of the node when no handle is given);
\* later edges with the same handle are not followed and an edge without
\* sourceHandle is never taken for a given handle.
C3_FollowsFirstEdgeInDeclarationOrder ==
    (Dispatched /\ last.follow_calls = 1) =>
        /\ last.followed <=> Eligible # {}
        /\ last.followed =>
            /\ last.target = graph.edges[FirstEligible].target
            /\ last.handle # NoHandle =>
                   graph.edges[FirstEligible].source_handle # NoHandle
            /\ pc = "follow_path" => node_id = last.target

\* A given handle carried by several edges of the node with different
\* targets: the first one was followed.
C3_Witness ==
    /\ Dispatched
    /\ last.followed
    /\ last.handle # NoHandle
    /\ \E i, j \in Eligible : i < j /\ graph.edges[i].target # graph.edges[j].target

\* C4: a traversal dead end yields NoMatch: no request node in the graph,
\* an edge target that is no node of the graph, a dispatched node without
\* outgoing edge, or without outgoing edge for the handle selected.
C4_DeadEndsYieldNoMatch ==
    pc = "done" =>
        /\ (\A i \in 1..Len(graph.nodes) : graph.nodes[i].node_type # "request")
               => result.kind = "NoMatch" /\ dispatches = 0
        /\ node_id = DanglingId => result.kind = "NoMatch"
        /\ (Dispatched /\ last.follow_calls = 1 /\ Eligible = {})
               => result.kind = "NoMatch"

\* An edge led to an id that no node carries, and evaluate returned NoMatch.
C4_Witness ==
    /\ pc = "done"
    /\ node_id = DanglingId
    /\ Dispatched
    /\ last.target = DanglingId
    /\ result.kind = "NoMatch"

\* C5: a malformed action or redirect node yields Block with status 500,
\* whatever outgoing edges the node has.
C5_MalformedActionRedirectBlock500 ==
    (LastMalformed /\ last.node_type \in {"action", "redirect"}) =>
        /\ pc = "done"
        /\ result.kind = "Block"
        /\ result.status_code = 500
        /\ last.follow_calls = 0

\* A malformed redirect node that has an outgoing edge was dispatched.
C5_Witness ==
    /\ LastMalformed
    /\ last.node_type = "redirect"
    /\ Outgoing # {}
    /\ result.kind = "Block"

\* The positions, in the graph's edge list, of the edges that leave the node
\* being dispatched, and of those among them that carry the handle h.
OutgoingOfThis == {i \in 1..Len(graph.edges) : graph.edges[i].source = node_id}
OutgoingOfThisWith(h) == {i \in OutgoingOfThis : graph.edges[i].source_handle = h}
First(S) == CHOOSE i \in S : \A j \in S : i <= j

\* The step continues the traversal at the first edge of the positions S,
\* and returns NoMatch when there is none.
ContinuesAtFirstOf(S) ==
    IF S = {}
    THEN pc' = "done" /\ result'.kind = "NoMatch"
    ELSE /\ pc' \in {"follow_path", "overflow"}
         /\ pc' = "follow_path" => node_id' = graph.edges[First(S)].target

\* C6: a malformed rateLimit node fails open: the traversal continues along
\* the node's "ok" handle, never along "exceeded", and the dispatch makes no
\* call to the rate service.
C6_MalformedRateLimitFailsOpen ==
    [][(Dispatching("rateLimit") /\ ~ParsesAs("rateLimit", ThisNode.data)) =>
          /\ last'.node = node_id
          /\ last'.handle = "ok"
          /\ ContinuesAtFirstOf(OutgoingOfThisWith("ok"))
          /\ check_calls' = check_calls
          /\ lookup_calls' = lookup_calls
          /\ rate_answer' = rate_answer]_vars

\* A malformed rateLimit node whose "exceeded" edge is declared before its
\* "ok" edge was dispatched, and the "ok" edge was followed.
C6_Witness ==
    /\ LastMalformed
    /\ last.node_type = "rateLimit"
    /\ last.followed
    /\ \E i, j \in Outgoing :
          /\ i < j
          /\ graph.edges[i].source_handle = "exceeded"
          /\ graph.edges[j].source_handle = "ok"
    /\ check_calls = 0
    /\ lookup_calls = 0

C9_HandleFollowsDecision ==
    (Dispatched /\ ~LastMalformed) =>
        /\ last.node_type = "ruleGroup" =>
              last.handle = IF evaluate_rule_group(LastNode.data, req)
                            THEN "match" ELSE "noMatch"
        /\ last.node_type = "condition" =>
              last.handle = IF evaluate_condition(LastNode.data, req)
                            THEN "true" ELSE "false"
        /\ last.node_type = "rateLimit" =>
              last.handle = IF rate_answer = "blocked" THEN "exceeded" ELSE "ok"
        /\ last.node_type = "header" => last.handle = "next"
        /\ last.node_type = "request" => last.handle = NoHandle
        /\ last.node_type \in {"request", "ruleGroup", "condition", "rateLimit", "header"} =>
              last.follow_calls = 1

\* The rate check reported exceeded and the "exceeded" edge of the
\* rateLimit node, declared after its "ok" edge, was followed.
C9_Witness ==
    /\ Dispatched
    /\ last.node_type = "rateLimit"
    /\ rate_answer = "blocked"
    /\ last.followed
    /\ graph.edges[FirstEligible].source_handle = "exceeded"
    /\ \E i \in Outgoing : i < FirstEligible /\ graph.edges[i].source_handle = "ok"

\* C10: a node of an unknown kind is a transparent pass-through: its
\* dispatch has no side effect and the traversal continues at the target of
\* the node's first outgoing edge, whatever that edge's sourceHandle.
C10_UnknownKindPassThrough ==
    [][(pc = "follow_path" /\ node_id \in DOMAIN nodes
            /\ ThisNode.node_type \notin KnownTypes) =>
          /\ ContinuesAtFirstOf(OutgoingOfThis)
          /\ header_mods' = header_mods
          /\ check_calls' = check_calls
          /\ lookup_calls' = lookup_calls
          /\ rate_answer' = rate_answer]_vars

\* A node of an unknown kind was dispatched and its first outgoing edge,
\* which carries a sourceHandle, was followed.
C10_Witness ==
    /\ Dispatched
    /\ last.node_type \notin KnownTypes
    /\ last.followed
    /\ graph.edges[First(Outgoing)].source_handle # NoHandle
    /\ last.target = graph.edges[First(Outgoing)].target

\* The header nodes dispatched by this evaluation that collect an entry:
\* those whose data parse and whose operation is set, append or remove.
Collects(id) ==
    /\ nodes[id].node_type = "header"
    /\ ParsesAs("header", nodes[id].data)
    /\ nodes[id].data.operation \in {"set", "append", "remove"}
CollectingVisits == SelectSeq(visited, Collects)

\* The entry a header node's data describes.
EntryOf(data, entry) ==
    /\ entry.name = data.name
    /\ entry.op = (CASE data.operation = "set" -> "Set"
                     [] data.operation = "append" -> "Append"
                     [] data.operation = "remove" -> "Remove")
    /\ entry.op # "Remove" => entry.value = data.value

\* The values a header of the backend request must have once the entries
\* were applied in order: what the last set or remove of the header left
\* (the request's own value when there is none), then every value appended
\* after it.
ValuesAfterMods(name, r, mods) ==
    LET resets == {i \in 1..Len(mods) : mods[i].name = name /\ mods[i].op \in {"Set", "Remove"}}
        k == IF resets = {} THEN 0 ELSE CHOOSE i \in resets : \A j \in resets : j <= i
        base == IF k = 0
                THEN (IF name \in DOMAIN r.headers THEN <<r.headers[name]>> ELSE <<>>)
                ELSE (IF mods[k].op = "Set" THEN <<mods[k].value>> ELSE <<>>)
        later == SelectSeq(SubSeq(mods, k + 1, Len(mods)),
                           LAMBDA m : m.name = name /\ m.op = "Append")
    IN  base \o [i \in 1..Len(later) |-> later[i].value]

\* C11: the header-mutation list holds exactly one entry per visited header
\* node with operation set, append or remove, in the order of the visits
\* (nodes off the path and nodes with another operation or malformed data
\* add nothing), and on Route the handler applies the entries to the
\* backend request in that order.
C11_HeaderModsInVisitOrder ==
    /\ Len(header_mods) = Len(CollectingVisits)
    /\ \A i \in 1..Len(header_mods) :
          EntryOf(nodes[CollectingVisits[i]].data, header_mods[i])
    /\ (pc = "responded" /\ result.kind = "Route") =>
          LET names == DOMAIN req.headers \cup
                         {header_mods[i].name : i \in 1..Len(header_mods)}
              present == {h \in names : ValuesAfterMods(h, req, header_mods) # <<>>}
          IN  /\ backend_req.sent
              /\ backend_req.headers =
                    [h \in present |-> ValuesAfterMods(h, req, header_mods)]

\* A request that carries the header was routed after an append and then a
\* set of that header were collected, while another header node of the
\* graph was not on the path or collected nothing.
C11_Witness ==
    /\ pc = "responded"
    /\ result.kind = "Route"
    /\ Len(header_mods) = 2
    /\ header_mods[1].op = "Append"
    /\ header_mods[2].op = "Set"
    /\ header_mods[1].name \in DOMAIN req.headers
    /\ backend_req.headers[header_mods[1].name] = <<header_mods[2].value>>

\* C12: the collected header mutations are applied to a request only when
\* the evaluation ends in Route; after Block, Redirect, Allow or NoMatch no
\* request is sent at all, and no response carries a header they name.
C12_HeaderModsAppliedOnlyOnRoute ==
    pc = "responded" =>
        /\ result.kind # "Route" => backend_req = NoRequest
        /\ result.kind = "Route" => backend_req.sent
        /\ \A i \in 1..Len(header_mods) : header_mods[i].name \notin DOMAIN response.headers

\* The handler answered an evaluation that collected header mutations and
\* did not end in Route.
C12_Witness ==
    /\ pc = "responded"
    /\ result.kind \in {"Block", "Redirect", "Allow", "NoMatch"}
    /\ header_mods # <<>>
    /\ backend_req = NoRequest

\* C13: a second call of evaluate on the same interpreter, for the same
\* request, returns the same result as the first and leaves the same list
\* of header mutations for get_header_mods.
C13_ReevaluationIsIdempotent ==
    (pc = "done" /\ evaluations > 1) =>
        /\ result = prev.result
        /\ header_mods = prev.header_mods

\* C14: two evaluations of the same graph for the same request return the
\* same result, also when the graph holds several request nodes.
C14_ResultIsFunctionOfGraphAndRequest ==
    (pc \in {"done", "responded"} /\ evaluations > 1 /\ prev.req = req) =>
        result = prev.result

\* C15: when the handler starts the evaluation of a request, the
\* interpreter's header-mutation list is empty and its geo cache is unset,
\* whatever the requests before left behind.
C15_NoStateAcrossRequests ==
    pc = "idle" => /\ header_mods = <<>>
                   /\ geo_cache = None

\* The handler starts the evaluation of its second request after a first
\* one that collected a header mutation and filled the geo cache.
C15_Witness ==
    /\ pc = "idle"
    /\ evaluations > 1
    /\ prev.header_mods # <<>>
    /\ prev.geo_cache # None

\* The data of the last dispatched node when it is a well-formed node of a
\* type, and what the field of that condition resolves to.
LastParsed(node_type) == Dispatched /\ last.node_type = node_type /\ last.parsed
LastField == get_field_value(effective_field(LastNode.data), req)

\* The spellings of the three logic values.
AndSpellings == {"AND", "and"}
OrSpellings == {"OR", "or", "Or"}
NotSpellings == {"NOT", "not"}

\* C16: a ruleGroup matches as the reference says: an empty condition list
\* always; otherwise AND iff all conditions are true, OR iff at least one
\* is, NOT iff none is, and an unknown logic as AND; so over a non-empty
\* all-false list AND and OR do not match and NOT does.
C16_RuleGroupMatchesReference ==
    LastParsed("ruleGroup") =>
        LET data == LastNode.data
            n == Len(data.conditions)
            truth == [i \in 1..n |-> evaluate_condition(data.conditions[i], req)]
            all_true == \A i \in 1..n : truth[i]
            some_true == \E i \in 1..n : truth[i]
            expected == IF n = 0 THEN TRUE
                        ELSE IF data.logic \in OrSpellings THEN some_true
                        ELSE IF data.logic \in NotSpellings THEN ~some_true
                        ELSE all_true
        IN  /\ last.handle = IF expected THEN "match" ELSE "noMatch"
            /\ (n > 0 /\ ~some_true) =>
                  /\ data.logic \in AndSpellings \cup OrSpellings => last.handle = "noMatch"
                  /\ data.logic \in NotSpellings => last.handle = "match"

\* A ruleGroup of unknown logic over one true and one false condition was
\* dispatched and did not match.
C16_Witness ==
    /\ LastParsed("ruleGroup")
    /\ LastNode.data.logic \notin AndSpellings \cup OrSpellings \cup NotSpellings
    /\ Len(LastNode.data.conditions) = 2
    /\ evaluate_condition(LastNode.data.conditions[1], req)
    /\ ~evaluate_condition(LastNode.data.conditions[2], req)
    /\ last.handle = "noMatch"

\* The condition with its field replaced by the header x-e, which every
\* request here carries with an empty value.
WithEmptyField(data) == [field |-> "x-e", operator |-> data.operator, value |-> data.value]

\* The parts of C17 that hold as claimed: an unresolved field gives, for
\* every operator but exists and notExists, the result of the empty string;
\* notEquals and notContains with a non-empty value and equals with an
\* empty value are then true; exists is true iff the value is present and
\* not empty, and notExists is its negation.
C17_Common ==
    LET data == LastNode.data
        is_true == last.handle = "true"
    IN  /\ (~LastField.some /\ data.operator \notin {"exists", "notExists"}) =>
              (is_true <=> evaluate_condition(WithEmptyField(data), req))
        /\ (~LastField.some /\ data.operator \in {"notEquals", "notContains"}
                /\ data.value # <<>>) => is_true
        /\ (~LastField.some /\ data.operator = "equals" /\ data.value = <<>>) => is_true
        /\ data.operator = "exists" => (is_true <=> (LastField.some /\ LastField.v # <<>>))
        /\ data.operator = "notExists" => (is_true <=> ~(LastField.some /\ LastField.v # <<>>))

\* C17 as claimed: with an unresolved field, notIn with a non-empty value
\* is true as well.
C17_MissingFieldIsEmptyString ==
    LastParsed("condition") =>
        /\ C17_Common
        /\ (~LastField.some /\ LastNode.data.operator = "notIn"
                /\ LastNode.data.value # <<>>) => last.handle = "true"

\* C17 as amended: with an unresolved field, notIn is true iff no member
\* of the value's list is empty once trimmed (a value that is blank, or
\* has a comma at an end or two commas in a row, has such a member).
C17_MissingFieldIsEmptyStringNotInByMembers ==
    LastParsed("condition") =>
        /\ C17_Common
        /\ (~LastField.some /\ LastNode.data.operator \in {"notIn", "!in"}) =>
              LET members == split_trimmed(LastNode.data.value)
              IN  last.handle = "true" <=> \A i \in 1..Len(members) : members[i] # <<>>

\* A notIn condition on an unresolved field whose value is not empty but
\* has an empty member was dispatched and was false.
C17_Witness ==
    /\ LastParsed("condition")
    /\ ~LastField.some
    /\ LastNode.data.operator = "notIn"
    /\ LastNode.data.value # <<>>
    /\ last.handle = "false"
    /\ last.followed

RateServiceFailed ==
    /\ LastParsed("rateLimit")
    /\ rate_answer = "error" \/ ~rate_limiter

\* The part of C19 on the node itself: after a failed check the node is not
\* exceeded and the edge followed, if any, is an "ok" edge.
FailsOpen ==
    RateServiceFailed =>
        /\ last.handle = "ok"
        /\ last.follow_calls = 1
        /\ last.followed => graph.edges[FirstEligible].source_handle = "ok"

\* C19: a rateLimit node fails open when check_rate returns an error or no
\* rate limiter is available: it is not exceeded, the traversal continues
\* along "ok", and the evaluation still ends in one of the five results.
C19_RateLimitFailsOpen ==
    /\ FailsOpen
    /\ rate_answer = "error" =>
          /\ pc \in {"follow_path", "done"}
          /\ pc = "done" => result.kind \in GraphResultKinds

\* follow_path is about to dispatch a well-formed rateLimit node.
VisitsRateLimit ==
    /\ pc = "follow_path"
    /\ node_id \in DOMAIN nodes
    /\ ThisNode.node_type = "rateLimit"
    /\ ParsesAs("rateLimit", ThisNode.data)

\* C20: each visit of a well-formed rateLimit node makes exactly one
\* check_rate call, with delta 1 and the entry get_rate_limit_key derives;
\* the entry's counter grows by exactly 1 with an answered call (and by no
\* more with a failed one), no other entry changes, and the debug lookups
\* made before and after the check add nothing.
C20_OneCheckOfDeltaOnePerVisit ==
    [][VisitsRateLimit =>
          LET entry == get_rate_limit_key(ThisNode.data, req)
              growth == Count(counter', entry) - Count(counter, entry)
          IN  /\ check_calls' = check_calls + 1
              /\ check_rate_call'.entry = entry
              /\ check_rate_call'.delta = 1
              /\ lookup_calls' > lookup_calls
              /\ IF rate_answer' = "error" THEN growth \in {0, 1} ELSE growth = 1
              /\ \A e \in (DOMAIN counter \cup DOMAIN counter') \ {entry} :
                     Count(counter', e) = Count(counter, e)]_vars

\* Two rateLimit nodes with the same entry were visited and answered: two
\* check calls, four lookups, and the entry's counter is 2.
C20_Witness ==
    /\ LastParsed("rateLimit")
    /\ last.node = "n3"
    /\ check_calls = 2
    /\ lookup_calls = 4
    /\ check_rate_call.entry = <<"k">>
    /\ counter = [e \in {<<"k">>} |-> 2]

\* The rateLimit visits logged so far, and those up to visit i that have
\* visit i's key and fall into the same second.
Visits == 1..Len(rate_log)
Answered(i) == rate_log[i].answer # "error"
SameKey(i, j) == rate_log[j].call.entry = rate_log[i].call.entry
SameSecond(i) == {j \in 1..i : SameKey(i, j) /\ rate_log[j].at = rate_log[i].at}

\* Visit i's key was judged exceeded in an earlier second.
ExceededBefore(i) ==
    \E j \in 1..(i - 1) :
        SameKey(i, j) /\ rate_log[j].at < rate_log[i].at /\ rate_log[j].handle = "exceeded"

\* The data of the graph's rateLimit node.
TrafficNode == nodes["n2"].data

\* C21: with a limit of 2 per second, of the requests of one key that fall
\* into one second (their checks answered, the key not exceeded before)
\* the first two take "ok" and the third "exceeded"; requests of another
\* key in that second do not count and take "ok".
C21_ThirdInWindowIsExceeded ==
    (tracked /\ TrafficNode.windowUnit = "second" /\ TrafficNode.limit = 2) =>
        \A i \in Visits :
            ((\A j \in SameSecond(i) : Answered(j)) /\ ~ExceededBefore(i)) =>
                rate_log[i].handle =
                    IF Cardinality(SameSecond(i)) <= 2 THEN "ok" ELSE "exceeded"

\* Three requests of one key in one second: the third was exceeded and
\* was answered with the block node's status.
C21_Witness ==
    /\ tracked
    /\ TrafficNode.windowUnit = "second"
    /\ Len(rate_log) = 3
    /\ SameSecond(3) = {1, 2, 3}
    /\ \A i \in 1..3 : Answered(i)
    /\ rate_log[1].handle = "ok"
    /\ rate_log[2].handle = "ok"
    /\ rate_log[3].handle = "exceeded"
    /\ pc = "responded"
    /\ response.status = 429

\* The penalty, the counting window and the limit per window the claims
\* give a node of a window unit, in seconds and requests.
PenaltySeconds(unit) == IF unit = "hour" THEN 10 * 60 ELSE 2 * 60
WindowSeconds(unit) == IF unit = "second" THEN 1 ELSE 60
LimitPerWindow(data) == IF data.windowUnit = "hour" THEN data.limit \div 60 ELSE data.limit

\* Visit j finds its key in the penalty box: an earlier visit of the key
\* was judged exceeded (it was exceeded and not itself in the box) less
\* than the penalty ago.
RECURSIVE InBoxAt(_)
InBoxAt(j) ==
    \E i \in 1..(j - 1) :
        /\ SameKey(j, i)
        /\ rate_log[i].handle = "exceeded"
        /\ ~InBoxAt(i)
        /\ rate_log[j].at < rate_log[i].at + PenaltySeconds(TrafficNode.windowUnit)

\* The counted visits of visit j's key in the window that ends with j.
InWindow(j) ==
    {k \in 1..j : /\ SameKey(j, k)
                  /\ Answered(k) \/ rate_log[k].counted
                  /\ rate_log[k].at > rate_log[j].at - WindowSeconds(TrafficNode.windowUnit)}

\* C22: a key judged exceeded is in the penalty box for 10 minutes when
\* the window unit is hour and for 2 minutes otherwise: every later visit
\* of the key in that time (its check answered) takes "exceeded", and a
\* visit after it is judged from the key's counter again.
C22_PenaltyBoxForItsDuration ==
    tracked =>
        \A j \in Visits :
            Answered(j) =>
                IF InBoxAt(j)
                THEN rate_log[j].handle = "exceeded"
                ELSE rate_log[j].handle = "exceeded" <=>
                        Cardinality(InWindow(j)) > LimitPerWindow(TrafficNode)

\* With an hour window, a key was judged exceeded and two minutes later,
\* its window empty again, its next request was exceeded as well.
C22_Witness ==
    /\ tracked
    /\ TrafficNode.windowUnit = "hour"
    /\ Len(rate_log) = 3
    /\ rate_log[2].handle = "exceeded"
    /\ ~InBoxAt(2)
    /\ SameKey(3, 2)
    /\ rate_log[3].at = rate_log[2].at + 120
    /\ InWindow(3) = {3}
    /\ Answered(3)
    /\ rate_log[3].handle = "exceeded"

\* C23: the window and the limit given to check_rate: second -> the
\* 1-second window and the configured limit; minute -> the 60-second
\* window and the configured limit; hour -> the 60-second window and the
\* configured limit divided by 60, rounded down (0 below 60); any other
\* unit -> the 60-second window and the configured limit.
C23_WindowAndLimitOfTheCheck ==
    LastParsed("rateLimit") =>
        LET data == LastNode.data
            call == check_rate_call
        IN  /\ call.window = "OneSec" <=> data.windowUnit = "second"
            /\ call.window \in {"OneSec", "SixtySecs"}
            /\ data.windowUnit # "hour" => call.limit = data.limit
            /\ data.windowUnit = "hour" =>
                  /\ 60 * call.limit <= data.limit
                  /\ data.limit < 60 * (call.limit + 1)
                  /\ data.limit < 60 => call.limit = 0

\* A rateLimit node of 59 per hour was dispatched: its check was made with
\* the 60-second window and the limit 0.
C23_Witness ==
    /\ LastParsed("rateLimit")
    /\ LastNode.data.windowUnit = "hour"
    /\ LastNode.data.limit = 59
    /\ check_rate_call.window = "SixtySecs"
    /\ check_rate_call.limit = 0

\* The key the claim gives a rateLimit node on the request evaluated.
ResolvedOr(field, otherwise) ==
    IF get_field_value(field, req).some THEN get_field_value(field, req).v ELSE otherwise
KeyOfClaim(data) ==
    IF data.keyBy = "ip" THEN ResolvedOr("clientIp", Unknown)
    ELSE IF data.keyBy = "fingerprint" THEN ResolvedOr("ja4", ResolvedOr("ja3", Unknown))
    ELSE IF data.keyBy = "header"
         THEN IF "headerName" \in DOMAIN data /\ data.headerName \in DOMAIN req.headers
              THEN req.headers[data.headerName]
              ELSE Unknown
    ELSE IF data.keyBy = "path" THEN req.path
    ELSE Unknown

\* C24: the entry of the check is derived from keyBy: ip -> the resolved
\* client IP; fingerprint -> JA4, else JA3, else "unknown"; header -> the
\* named header's value, else "unknown" (also without a header name);
\* path -> the request path; any other keyBy -> "unknown"; and the entry
\* counted is that key, so requests without a key count on "unknown".
C24_KeyDerivedFromKeyBy ==
    LastParsed("rateLimit") =>
        /\ check_rate_call.entry = KeyOfClaim(LastNode.data)
        /\ Count(counter, KeyOfClaim(LastNode.data)) > 0 \/ rate_answer = "error"

\* Two rateLimit nodes without a derivable key, one of an unknown keyBy
\* and one keyed by a header without a name, counted on the one entry
\* "unknown".
C24_Witness ==
    /\ LastParsed("rateLimit")
    /\ last.node = "n3"
    /\ ParsesAs("rateLimit", nodes["n2"].data)
    /\ nodes["n2"].data.keyBy = "session"
    /\ nodes["n3"].data.keyBy = "header"
    /\ "headerName" \notin DOMAIN nodes["n3"].data
    /\ check_calls = 2
    /\ counter = [e \in {Unknown} |-> 2]

\* The instances whose check was made, and those among them that the
\* store counted for an entry.
Checked == {i \in 1..Len(instances) : instances[i].answer # "none"}
CountedFor(entry) == {i \in Checked : CallOf(i).entry = entry /\ instances[i].counted}
Entries == {CallOf(i).entry : i \in 1..Len(instances)}

\* C25: with concurrent requests on interpreters of their own, every
\* check adds its own increment to the shared counter (none is lost), the
\* handle of each request is decided by the answer of its own check and
\* not by the counts its debug lookups read, and a check that fails makes
\* its own request take "ok" and no other.
C25_ConcurrentChecksAreIndependent ==
    /\ \A e \in Entries \cup DOMAIN counter :
          Count(counter, e) = Cardinality(CountedFor(e))
    /\ \A i \in Checked : instances[i].answer # "error" => instances[i].counted
    /\ \A i \in 1..Len(instances) :
          instances[i].pc = "done" =>
              /\ instances[i].handle = "exceeded" <=> instances[i].answer = "blocked"
              /\ instances[i].handle = "ok" <=> instances[i].answer \in {"passed", "error"}

\* Three concurrent requests of one key at a node of 2 per second: one
\* check failed and took "ok", one passed and took "ok" although its
\* lookup read a count above the limit, one was blocked and took
\* "exceeded".
C25_Witness ==
    /\ Len(instances) = 3
    /\ nodes["n2"].data.windowUnit = "second"
    /\ \A i \in 1..3 : instances[i].pc = "done"
    /\ \E i \in 1..3 : instances[i].answer = "error" /\ instances[i].handle = "ok"
    /\ \E i \in 1..3 : /\ instances[i].answer = "passed"
                         /\ instances[i].count_after > nodes["n2"].data.limit
                         /\ instances[i].handle = "ok"
    /\ \E i \in 1..3 : instances[i].answer = "blocked" /\ instances[i].handle = "exceeded"

\* The handler has answered a request whose graph could not be loaded.
LoadFailed == ~load.ok /\ load.err \in LoadErrors /\ req.path \notin SystemPaths
AnsweredLoadError == LoadFailed /\ pc = "responded"

\* C26: when the graph cannot be loaded (key not found, decoding or
\* decompression failure, schema mismatch, empty payload) the handler
\* forwards the request to a default backend instead of answering the
\* client with an error response, and records failopen:graph_load_error.
C26_LoadErrorFailsOpen ==
    AnsweredLoadError =>
        /\ backend_req.sent
        /\ response.status # ServiceUnavailable
        /\ response.headers["x-cc-action"] = <<"failopen:graph_load_error">>

\* The request was evaluated or its graph could not be loaded: it was not
\* for the version and health endpoint.
AnsweredEvaluated == pc = "responded" /\ req.path \notin SystemPaths

\* The value of X-CC-Action that belongs to the outcome.
ActionOfOutcome ==
    IF LoadFailed THEN <<"failopen:graph_load_error">>
    ELSE CASE result.kind = "Block" -> <<"blocked">>
           [] result.kind = "Route" ->
                 IF backend_req.ok THEN <<"routed:", result.backend.name>>
                 ELSE <<"failopen:backend_error:", result.backend.name>>
           [] result.kind = "Redirect" -> <<"redirect:", result.status_code>>
           [] result.kind = "Allow" -> <<"allowed">>
           [] result.kind = "NoMatch" -> <<"nomatch">>

\* C27: every response the handler returns for an evaluated request has
\* the header X-CC-Action, with the value blocked, routed:<backend name>,
\* redirect:<status>, allowed or nomatch of its outcome and a value that
\* starts with failopen: after a load error or a backend failure.
C27_EveryResponseCarriesItsAction ==
    AnsweredEvaluated =>
        /\ "x-cc-action" \in DOMAIN response.headers
        /\ response.headers["x-cc-action"] = ActionOfOutcome
        /\ (LoadFailed \/ (result.kind = "Route" /\ ~backend_req.ok)) <=>
              response.headers["x-cc-action"][1] \in
                  {"failopen:graph_load_error", "failopen:backend_error:"}

\* A backend failure was answered with its failopen value, where the graph
\* had been loaded and the evaluation ended in Route.
C27_Witness ==
    /\ AnsweredEvaluated
    /\ load.ok
    /\ result.kind = "Route"
    /\ ~backend_req.ok
    /\ response.headers["x-cc-action"] = <<"failopen:backend_error:", "origin">>

\* The evaluation ended in Route and the backend could not be built or
\* did not answer; the handler has answered the client.
AnsweredBackendFailure ==
    /\ pc = "responded"
    /\ result.kind = "Route"
    /\ backend_req.sent
    /\ ~backend_req.ok

\* The request the handler hands on after a backend failure is the one it
\* received: without Edge-Auth and without the header modifications that
\* went onto the backend request.
HandsOnOriginalRequest ==
    /\ "edge-auth" \notin DOMAIN req.headers
    /\ header_mods # <<>> => backend_req.headers # clone_without_body(req)

\* The handler's part of C28 without the default backend: no second
\* send, the reason, the original request.
BackendFailureHandled ==
    AnsweredBackendFailure =>
        /\ backend_req.sends <= 1
        /\ response.headers["x-cc-action"] =
              <<"failopen:backend_error:", result.backend.name>>
        /\ HandsOnOriginalRequest

\* C28: when the evaluation ends in Route and building the backend or
\* sending to it fails, the handler sends to that backend once only and
\* falls open to the default backend with the reason
\* failopen:backend_error:<backend name>; the request it passes on is the
\* original one, without the header modifications and without Edge-Auth.
C28_BackendFailureFallsOpen ==
    /\ BackendFailureHandled
    /\ AnsweredBackendFailure => response.status # ServiceUnavailable

\* load_graph_from_store has returned.
Loaded == pc # "start"

\* C29: load_graph_from_store reports a key without a value as
\* KeyNotFound and a value that is there never as KeyNotFound: a value
\* that is no payload, whose rules_packed is empty (EmptyRules) or does
\* not decode gives another error; with any error no graph is returned.
C29_KeyNotFoundIffAbsent ==
    Loaded =>
        /\ ~config_store.some => load = Err("KeyNotFound")
        /\ config_store.some => (load.ok \/ load.err \in LoadErrors \ {"KeyNotFound"})
        /\ config_store = Some(VcePayload(EmptyString)) => load = Err("EmptyRules")
        /\ ~load.ok => (DOMAIN load = {"ok", "err"} /\ graph = NoGraph /\ pc # "idle")

\* The store had no value under the service id and the handler has
\* answered the request.
C29_Witness ==
    /\ ~config_store.some
    /\ load = Err("KeyNotFound")
    /\ pc = "responded"
    /\ req.path \notin SystemPaths

\* The JSON documents of the packed strings here, and the two encodings
\* of a document.
Documents ==
    DocumentsWithoutKeys \cup DocumentsWithKeys
    \cup {graph_to_value(g) : g \in StoredGraphs}
EncodingsOf(d) == {PackRaw(JsonText(d)), PackGzip(JsonText(d))}

\* The document has no top-level key "nodes" or no top-level key "edges".
LacksKey(d) ==
    \/ d.json # "object"
    \/ ~({"nodes", "edges"} \subseteq DOMAIN d.fields)

\* The document has both keys and one of them holds no array.
HoldsNoArray(d) ==
    /\ ~LacksKey(d)
    /\ \E k \in {"nodes", "edges"} : d.fields[k].json # "array"

\* decompress_graph has returned for an encoding of document d.
Decompressed(d) ==
    /\ Loaded
    /\ \E packed \in EncodingsOf(d) : config_store = Some(VcePayload(packed))

\* C30 as claimed: decompress_graph fails with InvalidFormat for every
\* decoded JSON document without a top-level nodes array and a top-level
\* edges array, the key missing or holding no array, in both encodings.
C30_InvalidFormatWithoutArrays ==
    \A d \in Documents :
        (Decompressed(d) /\ (LacksKey(d) \/ HoldsNoArray(d))) =>
            load = Err("InvalidFormat")

\* C30: decompress_graph fails with InvalidFormat for every decoded JSON
\* document without a top-level key nodes or edges, in both encodings; a
\* document that has both keys where one holds no array fails with
\* JsonError.
C30_InvalidFormatWithoutKeys ==
    \A d \in Documents :
        Decompressed(d) =>
            /\ LacksKey(d) => load = Err("InvalidFormat")
            /\ HoldsNoArray(d) => load = Err("JsonError")

\* The gzip encoding of a document with a key nodes and no key edges was
\* refused as InvalidFormat.
C30_Witness ==
    /\ config_store = Some(VcePayload(PackGzip(JsonText(JsonFields1("nodes", NoItems)))))
    /\ load = Err("InvalidFormat")
    /\ pc = "responded"

\* The store holds a payload with this packed string and
\* load_graph_from_store has returned.
LoadedFrom(packed) == Loaded /\ config_store = Some(VcePayload(packed))

\* C31: a graph serialised to JSON and packed as "raw:" + base64(JSON) or
\* as base64(gzip(JSON)) loads as a graph with the same nodes and the same
\* edges in the same order; which decoding is used depends on the prefix
\* "raw:" only, so gzip under "raw:" and plain JSON without it do not load.
C31_RoundTripOfBothEncodings ==
    /\ \A g \in RoundTripGraphs :
          \A packed \in EncodingsOf(graph_payload_to_value(g)) :
              LoadedFrom(packed) => load = Ok(g)
    /\ \A packed \in {Packed("raw:", Base64Of(GzipBytes(Utf8Bytes(
                                        JsonText(graph_to_value(NoGraph)))))),
                       Packed("", Base64Of(Utf8Bytes(JsonText(graph_to_value(NoGraph)))))} :
          LoadedFrom(packed) => load = Err("DecompressError")

\* A graph of three nodes, the last declared first, and two edges was
\* stored with gzip and loaded in that order.
C31_Witness ==
    /\ \E g \in RoundTripGraphs :
          /\ Len(g.nodes) = 3
          /\ g.nodes[1].id = "n3"
          /\ Len(g.edges) = 2
          /\ g.edges[1].id = "e2"
          /\ LoadedFrom(PackGzip(JsonText(graph_payload_to_value(g))))
          /\ load = Ok(g)
    /\ pc = "responded"


\* A host without any leading http:// or https:// and without trailing
\* slashes.
RECURSIVE WithoutSchemes(_)
WithoutSchemes(host) ==
    IF starts_with(host, HttpsPrefix)
    THEN WithoutSchemes(SubSeq(host, Len(HttpsPrefix) + 1, Len(host)))
    ELSE IF starts_with(host, HttpPrefix)
    THEN WithoutSchemes(SubSeq(host, Len(HttpPrefix) + 1, Len(host)))
    ELSE host
RECURSIVE WithoutTrailingSlashes(_)
WithoutTrailingSlashes(host) ==
    IF host # <<>> /\ host[Len(host)] = "/"
    THEN WithoutTrailingSlashes(SubSeq(host, 1, Len(host) - 1))
    ELSE host
CleanedHost(data) == WithoutTrailingSlashes(WithoutSchemes(data.host))
OverrideOrCleaned(data) ==
    IF "overrideHost" \in DOMAIN data THEN data.overrideHost ELSE CleanedHost(data)

\* C32: send_to_backend connects to the host without any leading http://
\* or https:// and without trailing slashes, at the configured port or at
\* 443; the Host header it sends and the TLS SNI it gives the backend are
\* the override host when one is configured and the cleaned host
\* otherwise.
SentToBackend == pc = "responded" /\ backend_req.sent
C32_TargetHostHeaderAndSni ==
    SentToBackend =>
        /\ backend_req.backend.target =
               [host |-> CleanedHost(result.backend),
                port |-> IF "port" \in DOMAIN result.backend
                         THEN result.backend.port ELSE 443]
        /\ backend_req.sent_headers["host"] = <<OverrideOrCleaned(result.backend)>>
        /\ backend_req.backend.sni_hostname.some =>
               backend_req.backend.sni_hostname.v = OverrideOrCleaned(result.backend)


\* C33: during one evaluation the geo lookup is made at most once and the
\* device lookup is made at most once, however many conditions read geo
\* or device fields; a geo lookup that returned nothing is not repeated.
C33_LookupsAtMostOnce ==
    /\ lookups.geo <= 1
    /\ lookups.device <= 1


\* C34: node ids are unique within every graph the interpreter evaluates:
\* the node index built for a loaded graph holds one entry per node of the
\* graph, so no node is shadowed by another node with the same id.
InterpreterBuilt == load.ok /\ pc \in {"idle", "follow_path", "done", "responded"}
C34_NodeIdsUnique ==
    InterpreterBuilt =>
        /\ Cardinality(DOMAIN nodes) = Len(graph.nodes)
        /\ \A i \in 1..Len(graph.nodes) : nodes[graph.nodes[i].id] = graph.nodes[i]


\* C35: whenever a rateLimit node is dispatched the interpreter holds a
\* rate limiter, and it holds one exactly when its graph has a node of
\* type rateLimit: the arm that fails open for want of a rate limiter is
\* never taken.
C35_RateLimiterHeld ==
    /\ Dispatching("rateLimit") => rate_limiter
    /\ rate_limiter <=> \E i \in 1..Len(graph.nodes) : graph.nodes[i].node_type = "rateLimit"

\* A rateLimit node that is not the first node of its graph is dispatched.
C35_Witness ==
    /\ Dispatching("rateLimit")
    /\ rate_limiter
    /\ graph.nodes[1].node_type # "rateLimit"


\* The header modifications collected for a header, in order.
ModsOn(name) == SelectSeq(header_mods, LAMBDA m : m.name = name)
LastModOn(name) == ModsOn(name)[Len(ModsOn(name))]
HasSecret(backend) == "edgeAuthSecret" \in DOMAIN backend /\ backend.edgeAuthSecret # <<>>

\* C36: the request sent on a Route outcome gets the Edge-Auth header
\* first (when the backend has a non-empty secret), then the collected
\* header modifications in order, then the Host header of send_to_backend:
\* a modification of Edge-Auth replaces or removes the signature, a
\* modification of Host never reaches the backend, the Host sent being the
\* override host or else the cleaned host the backend connects to.
C36_EdgeAuthThenModsThenHost ==
    SentToBackend =>
        LET sent == backend_req.sent_headers
            backend == result.backend
        IN  /\ ModsOn("edge-auth") = <<>> /\ HasSecret(backend) =>
                   sent["edge-auth"] = << <<"signed", backend.edgeAuthSecret>> >>
            /\ ModsOn("edge-auth") # <<>> /\ LastModOn("edge-auth").op = "Set" =>
                   sent["edge-auth"] = <<LastModOn("edge-auth").value>>
            /\ ModsOn("edge-auth") # <<>> /\ LastModOn("edge-auth").op = "Remove" =>
                   "edge-auth" \notin DOMAIN sent
            /\ sent["host"] = <<IF "overrideHost" \in DOMAIN backend
                                 THEN backend.overrideHost
                                 ELSE backend_req.backend.target.host>>

\* A request was sent for a backend with a secret and without override
\* host after a graph that sets Host and then removes Edge-Auth.
C36_Witness ==
    /\ SentToBackend
    /\ HasSecret(result.backend)
    /\ "overrideHost" \notin DOMAIN result.backend
    /\ Len(header_mods) = 2
    /\ header_mods[1].name = "host" /\ header_mods[1].op = "Set"
    /\ header_mods[2].name = "edge-auth" /\ header_mods[2].op = "Remove"
    /\ "edge-auth" \notin DOMAIN backend_req.sent_headers


\* The data of the action node whose dispatch ended the evaluation, when
\* it was well formed.
EndedInAction == pc = "done" /\ last.node_type = "action" /\ last.parsed
EndingData == nodes[last.node].data
ConfiguredOr(data, field, default) == IF field \in DOMAIN data THEN data[field] ELSE default

ResolvedName(data) ==
    IF data.field = "header" THEN ConfiguredOr(data, "headerName", "header") ELSE data.field
AttributeOrHeader(name, r) ==
    CASE name = "path" -> Some(r.path)
      [] name = "method" -> Some(r.method)
      [] name = "country" ->
            IF r.client_ip.some /\ r.geo.some THEN Some(r.geo.v.country_code)
            ELSE IF "fastly-client-geo-country" \in DOMAIN r.headers
                 THEN Some(r.headers["fastly-client-geo-country"]) ELSE None
      [] OTHER -> IF name \in DOMAIN r.headers THEN Some(r.headers[name]) ELSE None

====
